---- MODULE Spec2Model ----
(***************************************************************************)
(* Model of the equi-accessibility engine: the screen-reader enhancement   *)
(* engine of screenReaderUtils.ts and the settings / persistence / apply   *)
(* logic of AccessibilityPanel.tsx.                                        *)
(*                                                                         *)
(* The host document is a fixed skeleton of elements (HostEls) whose       *)
(* attribute values vary over the initial states.  Nodes the engine        *)
(* creates are records with a unique uid, so that duplicates of one id can *)
(* be represented.                                                         *)
(***************************************************************************)
EXTENDS Integers, Sequences, FiniteSets, TLC

\* ------------------------------------------------------------------ bounds
\* Outstanding asynchronous work when a call that announces is made: pending
\* animation-frame callbacks, pending timers and queued utterances.
MaxPending == 1
\* Consecutive enableScreenReaderMode calls within one session.
MaxEnables == 2
\* Setting changes the user makes through the panel in one behaviour.
MaxChanges == 2

\* handleReset calls in a behaviour.
MaxResets == 1

\* Announcements of the host that are on their way at a time: callbacks
\* waiting for a frame and regions waiting to be cleared.
MaxAnnouncements == 2

\* Utterances queued in the synthesizer when the host announces.
MaxUtterances == 2

\* Changes the host page makes to its images, and unmounts of the panel, in a
\* behaviour.
MaxInterference == 2

\* Settle-delay timers of focus events that are pending at one time.
MaxFocusTimers == 2

\* Callbacks of the mutation watcher that are followed after one mutation.
MaxWatcherRuns == 4

\* ------------------------------------------------------------ the document
\* getAttribute's null.
Absent == "<absent>"

HostEls ==
  {"header", "logo", "nav", "navlink", "iconlink", "main", "main2", "img", "btn",
   "input", "label", "email", "fieldset", "legend", "table", "th", "thRow",
   "form", "section", "h2", "collapse", "aside", "footer"}

\* Document order of the host elements (querySelector returns the first match).
Order ==
  <<"header", "logo", "nav", "navlink", "iconlink", "main", "img", "btn", "input",
    "label", "email", "fieldset", "legend", "table", "th", "thRow", "form",
    "section", "h2", "collapse", "aside", "main2", "footer">>

Tag ==
  [e \in HostEls |->
     CASE e = "header" -> "header"
       [] e = "nav" -> "nav"
       [] e \in {"navlink", "iconlink"} -> "a"
       [] e \in {"main", "main2"} -> "main"
       [] e \in {"img", "logo"} -> "img"
       [] e = "btn" -> "button"
       [] e \in {"input", "email"} -> "input"
       [] e = "label" -> "label"
       [] e = "fieldset" -> "fieldset"
       [] e = "legend" -> "legend"
       [] e = "table" -> "table"
       [] e \in {"th", "thRow"} -> "th"
       [] e = "form" -> "form"
       [] e = "section" -> "section"
       [] e = "h2" -> "h2"
       [] e = "collapse" -> "div"
       [] e = "aside" -> "aside"
       [] OTHER -> "footer"]

\* Parent element inside the skeleton ("body" for top-level elements).
Parent ==
  [e \in HostEls |->
     CASE e \in {"navlink", "iconlink"} -> "nav"
       [] e = "logo" -> "header"
       [] e = "legend" -> "fieldset"
       [] e \in {"th", "thRow"} -> "table"
       [] e = "h2" -> "section"
       [] e \in {"img", "btn", "input", "label", "email", "fieldset", "table",
                 "form", "section", "collapse"} -> "main"
       [] OTHER -> "body"]

\* Tag name of th.parentElement.parentElement (the row group).
RowGroup == [e \in {"th", "thRow"} |-> IF e = "thRow" THEN "TBODY" ELSE "THEAD"]

\* class attribute of each host element (never written by the engine).
ClassList ==
  [e \in HostEls |->
     CASE e = "navlink" -> {"active"}
       [] e = "form" -> {"search-form"}
       [] e = "collapse" -> {"collapsible"}
       [] OTHER -> {}]

\* Trimmed textContent of the elements whose text is read.
TextContent ==
  [e \in HostEls |->
     CASE e = "navlink" -> "Home"
       [] e = "legend" -> "Address"
       [] e = "label" -> "Email"
       [] e = "h2" -> "News"
       [] e = "main" -> "Welcome"
       [] OTHER -> ""]

AttrNames ==
  {"id", "tabindex", "role", "aria-label", "aria-labelledby", "aria-describedby",
   "alt", "aria-current", "scope", "aria-expanded", "data-expanded", "data-collapsed",
   "placeholder", "type", "href", "action", "for", "aria-hidden"}

\* The two outcomes drawn for a Math.random() id suffix.
RandomSuffixes == {"k3x9", "q7p2"}

Flags ==
  {"enhancedAria", "skipLinks", "enhancedFocus", "landmarkRoles", "liveRegions",
   "readOnFocus", "keyboardShortcuts"}

defaultScreenReaderConfig == [f \in Flags |-> TRUE]

MsgEnabled == "Screen reader mode enabled. Enhanced accessibility features are now active."
MsgDisabled == "Screen reader mode disabled."

ANNOUNCER_CONTAINER_ID == "accessibility-announcer-container"
POLITE_ANNOUNCER_ID == "accessibility-announcer-polite"
ASSERTIVE_ANNOUNCER_ID == "accessibility-announcer-assertive"

Regions == {"polite", "assertive"}

VARIABLES
  attrs,              \* host element -> attribute name -> value or Absent
  bodyClass,          \* body.classList contains 'screen-reader-mode'
  bodyDataSR,         \* body's data-screen-reader attribute (or Absent)
  nodes,              \* nodes created by the engine that are in the document
  originalAttributes, \* element -> attribute -> snapshot value, or NotStored
  createdElements,    \* registry: sequence of node uids
  liveRegionElement,  \* uid of the mode live region, Null for null
  debugMode,
  useSpeechSynthesis,
  focusReadingEnabled,
  listeners,          \* event name -> number of registered focus-reading handlers
  regionText,         \* live region -> sequence of its text nodes
  rafQueue,           \* pending requestAnimationFrame callbacks of the announcer
  timers,             \* pending setTimeout callbacks, in scheduling order
  speech,             \* utterances queued in window.speechSynthesis
  activeElement,      \* document.activeElement: a host element or "body"
  rootStyle,          \* inline style properties the panel manages, or Absent
  dataContrast,       \* the root element's data-contrast attribute, or Absent
  styleSheets,        \* managed style element id -> the contents of the style
                      \* elements with that id, in document order
  imageDataset,       \* images carrying data-original-display
  originalDisplay,    \* image -> the value of its data-original-display
  imageStyle,         \* image -> its inline style.display
  attached,           \* host images that are in the document
  placeholders,       \* image -> texts of the placeholder divs inserted after
                      \* it that are in the document, the nearest first
  announcementText,   \* text of the panel's own status region (announcementRef)
  saveMode,           \* the saveMode prop
  storageHandler,     \* the storage of getStorage: "webStorage", whose calls
                      \* return at once, or "async", a storageHandler prop
                      \* whose setItem returns a promise that settles in a
                      \* later task
  mounted,            \* the panel's mount effects have run
  settings,           \* the panel's in-memory settings (React state)
  storage,            \* storage key -> stored string, or NoItem
  hasUnsavedChanges,
  isSaving,
  shouldApplyEffectsRef,
  isInitialLoadRef,
  imagePlaceholdersRef, \* images that are keys of the placeholder map
  observing,          \* a MutationObserver of the hide-images effect is connected
  saving,             \* the continuation of handleSaveSettings after its await
  changes,            \* setting changes made so far (bounded)
  lastChange,         \* observer: the last change handler's setting and value
  pre,                \* observer: the document before the session's first enable
  enables,            \* observer: enable calls of the current or last session
  inSession,          \* observer: an enable has run since the last disable
  resets,             \* observer: handleReset calls so far
  interference,       \* observer: changes the host page made to its images,
                      \* and unmounts of the panel, so far
  announced,          \* observer: the announcement that is followed, the
                      \* other region's text when it was made, and how far
                      \* it has come
  documentDefined,    \* typeof document !== 'undefined' (and window, navigator)
  escaped,            \* observer: the async functions of the panel whose
                      \* promise was rejected with nothing to handle it
  lastOp              \* observer: "enable", "disable", "reset", "resetFailed",
                      \* "onSave" (the step called the onSave prop) or
                      \* "other", the last operation

engineVars ==
  <<attrs, bodyClass, bodyDataSR, nodes, originalAttributes, createdElements,
    liveRegionElement, debugMode, useSpeechSynthesis, focusReadingEnabled,
    listeners, regionText, rafQueue, timers, speech, activeElement>>

panelDocVars ==
  <<rootStyle, dataContrast, styleSheets, imageDataset, originalDisplay,
    imageStyle, attached, placeholders, announcementText, imagePlaceholdersRef>>

panelVars ==
  <<saveMode, storageHandler, mounted, settings, storage, hasUnsavedChanges,
    isSaving,
    shouldApplyEffectsRef, isInitialLoadRef, observing, saving, changes,
    lastChange>>

observerVars ==
  <<pre, enables, inSession, resets, interference, announced, escaped,
    lastOp>>

vars == <<engineVars, panelDocVars, panelVars, observerVars, documentDefined>>

\* Marker for "no entry" in the snapshot map.
NotStored == "<not stored>"

\* JavaScript's null for a node reference.
Null == <<"null", 0>>

\* The engine's state and the document as one value; the engine's functions
\* are operators from worlds to worlds.
World ==
  [attrs |-> attrs, bodyClass |-> bodyClass, bodyDataSR |-> bodyDataSR,
   nodes |-> nodes, orig |-> originalAttributes, created |-> createdElements,
   live |-> liveRegionElement, debug |-> debugMode,
   speechOn |-> useSpeechSynthesis, focusOn |-> focusReadingEnabled,
   listeners |-> listeners, regionText |-> regionText, raf |-> rafQueue,
   timers |-> timers, speech |-> speech, style |-> rootStyle,
   dataContrast |-> dataContrast, sheets |-> styleSheets,
   dataset |-> imageDataset, saved |-> originalDisplay,
   display |-> imageStyle, attached |-> attached, placeholders |-> placeholders,
   status |-> announcementText, phRef |-> imagePlaceholdersRef,
   active |-> activeElement, records |-> FALSE]

\* ------------------------------------------------------------- DOM helpers
\* Sequencing: the value of w is computed first, then the step is applied.
Then(w, Step(_)) == CHOOSE y \in {Step(x) : x \in {w}} : TRUE

\* list.forEach(callback), the callbacks run one after the other
RECURSIVE ForEach(_, _, _)
ForEach(Op(_, _), w, s) ==
  IF s = <<>>
    THEN w
    ELSE Then(Op(w, Head(s)), LAMBDA x : ForEach(Op, x, Tail(s)))

\* forEach((element, index) => ...): the index is the position in the list.
RECURSIVE ForEachIndexed(_, _, _, _)
ForEachIndexed(Op(_, _, _), w, s, i) ==
  IF s = <<>>
    THEN w
    ELSE Then(Op(w, Head(s), i), LAMBDA x : ForEachIndexed(Op, x, Tail(s), i + 1))

getAttribute(w, e, a) == w.attrs[e][a]
hasAttribute(w, e, a) == w.attrs[e][a] # Absent
setAttribute(w, e, a, v) == [w EXCEPT !.attrs[e][a] = v]
removeAttribute(w, e, a) == [w EXCEPT !.attrs[e][a] = Absent]

\* A JavaScript string-or-null used as a condition.
Truthy(v) == v # Absent /\ v # ""

\* element.id: the attribute's value, "" when it is absent.
IdOf(w, e) == IF w.attrs[e]["id"] = Absent THEN "" ELSE w.attrs[e]["id"]

\* querySelectorAll over the host elements: a static list in document order.
querySelectorAll(Sel(_, _), w) == SelectSeq(Order, LAMBDA e : Sel(w, e))

\* document.querySelectorAll(selector).forEach(callback)
ApplyRule(Sel(_, _), Op(_, _), w) ==
  Then(w, LAMBDA x : ForEach(Op, x, querySelectorAll(Sel, x)))

\* if (condition) { step() }
When(condition, Step(_), w) == IF condition THEN Then(w, Step) ELSE w

\* document.getElementById over host elements and created nodes.
getElementById(w, id) ==
  \/ \E n \in w.nodes : n.id = id
  \/ \E e \in HostEls : w.attrs[e]["id"] = id

\* A node reference <<id, k>> that nothing holds: not a node of the document,
\* not in the registry, not the live region.
FreshUid(w, id) ==
  LET used == {n.uid : n \in w.nodes}
                \cup {w.created[i] : i \in 1..Len(w.created)} \cup {w.live}
  IN <<id, CHOOSE k \in 1..(Cardinality(used) + 1) : <<id, k>> \notin used>>

NewNode(w, id, links) == [uid |-> FreshUid(w, id), id |-> id, links |-> links]

\* element.remove(): detaches the node with this uid if it is in the document.
RemoveNode(w, uid) == [w EXCEPT !.nodes = {n \in w.nodes : n.uid # uid}]

\* ------------------------------------------------------ the snapshot map
MutStoreOverwrite(w, e, a) == [w EXCEPT !.orig[e][a] = w.attrs[e][a]]

storeOriginalAttribute(w, e, a) ==
  IF w.orig[e][a] = NotStored
    THEN [w EXCEPT !.orig[e][a] = w.attrs[e][a]]
    ELSE w

\* -------------------------------------------------------- applyEnhancedAria
SelImgNoAlt(w, e) == Tag[e] = "img" /\ ~hasAttribute(w, e, "alt")

EnhanceImg(w, e) ==
  LET w1 == storeOriginalAttribute(storeOriginalAttribute(w, e, "alt"), e, "role")
  IN setAttribute(setAttribute(w1, e, "alt", "Image"), e, "role", "img")

SelUnnamed(tag, w, e) ==
  Tag[e] = tag /\ ~hasAttribute(w, e, "aria-label")
    /\ ~hasAttribute(w, e, "aria-labelledby")

SelLinkUnnamed(w, e) == SelUnnamed("a", w, e)

EnhanceLink(w, e) ==
  IF Len(TextContent[e]) < 2
    THEN LET href == getAttribute(w, e, "href")
         IN setAttribute(storeOriginalAttribute(w, e, "aria-label"), e, "aria-label",
                         "Link to " \o (IF Truthy(href) THEN href ELSE "page"))
    ELSE w

SelButtonUnnamed(w, e) == SelUnnamed("button", w, e)

EnhanceButton(w, e) ==
  IF TextContent[e] = ""
    THEN setAttribute(storeOriginalAttribute(w, e, "aria-label"), e, "aria-label",
                      "Button")
    ELSE w

\* nav a[class*="active"], nav a[class*="current"]
SelActiveNavLink(w, e) ==
  /\ Tag[e] = "a"
  /\ Parent[e] \in HostEls /\ Tag[Parent[e]] = "nav"
  /\ ClassList[e] \cap {"active", "current"} # {}

EnhanceNavLink(w, e) ==
  setAttribute(storeOriginalAttribute(w, e, "aria-current"), e, "aria-current", "page")

SelInputUnnamed(w, e) == SelUnnamed("input", w, e)

EnhanceInput(w, e) ==
  LET id == getAttribute(w, e, "id")
      placeholder == getAttribute(w, e, "placeholder")
      type == IF Truthy(getAttribute(w, e, "type"))
                THEN getAttribute(w, e, "type") ELSE "text"
      hasLabel == Truthy(id)
                    /\ \E l \in HostEls : Tag[l] = "label" /\ w.attrs[l]["for"] = id
  IN IF ~hasLabel
       THEN setAttribute(storeOriginalAttribute(w, e, "aria-label"), e, "aria-label",
                         IF Truthy(placeholder) THEN placeholder ELSE type \o " input")
       ELSE w

SelFieldset(w, e) == Tag[e] = "fieldset" /\ ~hasAttribute(w, e, "aria-describedby")

\* fieldset.querySelector('legend')
LegendsOf(e) == SelectSeq(Order, LAMBDA l : Tag[l] = "legend" /\ Parent[l] = e)

EnhanceFieldset(w, e, r) ==
  IF LegendsOf(e) # <<>> /\ IdOf(w, Head(LegendsOf(e))) = ""
    THEN LET legend == Head(LegendsOf(e))
             legendId == "legend-" \o r
             w1 == setAttribute(w, legend, "id", legendId)
         IN setAttribute(storeOriginalAttribute(w1, e, "aria-labelledby"), e,
                         "aria-labelledby", legendId)
    ELSE w

SelTableNoRole(w, e) == Tag[e] = "table" /\ ~hasAttribute(w, e, "role")

EnhanceTh(w, th) ==
  setAttribute(storeOriginalAttribute(w, th, "scope"), th, "scope",
               IF RowGroup[th] = "TBODY" THEN "row" ELSE "col")

\* table.querySelectorAll('th:not([scope])')
SelThNoScope(table, w, t) ==
  Tag[t] = "th" /\ Parent[t] = table /\ ~hasAttribute(w, t, "scope")

EnhanceTable(w, e) ==
  ApplyRule(LAMBDA x, t : SelThNoScope(e, x, t), EnhanceTh,
            setAttribute(storeOriginalAttribute(w, e, "role"), e, "role", "table"))

\* [data-collapsed], [data-expanded], .collapsible, .accordion-header
SelCollapsible(w, e) ==
  \/ hasAttribute(w, e, "data-collapsed")
  \/ hasAttribute(w, e, "data-expanded")
  \/ ClassList[e] \cap {"collapsible", "accordion-header"} # {}

EnhanceCollapsible(w, e) ==
  IF ~hasAttribute(w, e, "aria-expanded")
    THEN LET isExpanded == "expanded" \in ClassList[e]
                             \/ getAttribute(w, e, "data-expanded") = "true"
         IN setAttribute(storeOriginalAttribute(w, e, "aria-expanded"), e,
                         "aria-expanded", IF isExpanded THEN "true" ELSE "false")
    ELSE w

\* The eight rules run in source order; the innermost application is the first.
applyEnhancedAria(w, r) ==
  ApplyRule(SelCollapsible, EnhanceCollapsible,
    ApplyRule(SelTableNoRole, EnhanceTable,
      ApplyRule(SelFieldset, LAMBDA x, e : EnhanceFieldset(x, e, r),
        ApplyRule(SelInputUnnamed, EnhanceInput,
          ApplyRule(SelActiveNavLink, EnhanceNavLink,
            ApplyRule(SelButtonUnnamed, EnhanceButton,
              ApplyRule(SelLinkUnnamed, EnhanceLink,
                ApplyRule(SelImgNoAlt, EnhanceImg, w))))))))

\* ---------------------------------------------------------- createSkipLinks
skipTargets ==
  << [id |-> "main-content", label |-> "Skip to main content",
      tags |-> {"main"}, roles |-> {"main"}, ids |-> {"main", "content"},
      classes |-> {"main-content"}, searchInput |-> FALSE],
     [id |-> "main-navigation", label |-> "Skip to navigation",
      tags |-> {"nav"}, roles |-> {"navigation"}, ids |-> {"nav", "navigation"},
      classes |-> {"navigation"}, searchInput |-> FALSE],
     [id |-> "search", label |-> "Skip to search",
      tags |-> {}, roles |-> {"search"}, ids |-> {"search"},
      classes |-> {"search-form"}, searchInput |-> TRUE],
     [id |-> "footer", label |-> "Skip to footer",
      tags |-> {"footer"}, roles |-> {"contentinfo"}, ids |-> {"footer"},
      classes |-> {"footer"}, searchInput |-> FALSE] >>

\* Does host element e match the selector list of skip target t?
MatchesTarget(w, t, e) ==
  \/ Tag[e] \in t.tags
  \/ getAttribute(w, e, "role") \in t.roles
  \/ getAttribute(w, e, "id") \in t.ids
  \/ ClassList[e] \cap t.classes # {}
  \/ t.searchInput /\ Tag[e] = "input" /\ getAttribute(w, e, "type") = "search"

\* document.head.appendChild(node) / body.insertBefore(node, ...), then
\* createdElements.push(node)
InsertCreated(w, node) ==
  [w EXCEPT !.nodes = @ \cup {node}, !.created = Append(@, node.uid)]

MutAddSkipLinkStylesAlways(w) == InsertCreated(w, NewNode(w, "skip-link-styles", <<>>))

addSkipLinkStyles(w) ==
  IF getElementById(w, "skip-link-styles")
    THEN w
    ELSE InsertCreated(w, NewNode(w, "skip-link-styles", <<>>))

\* One iteration of skipTargets.forEach; p.links is the container's children.
\* if (!target.id) target.id = id
EnsureId(w, target, id) ==
  IF IdOf(w, target) = "" THEN setAttribute(w, target, "id", id) ELSE w

\* if (!target.hasAttribute('tabindex')) { snapshot; tabindex = -1 }
EnsureFocusable(w, target) ==
  IF ~hasAttribute(w, target, "tabindex")
    THEN setAttribute(storeOriginalAttribute(w, target, "tabindex"), target,
                      "tabindex", "-1")
    ELSE w

\* The skip link for a prepared target is appended to the container.
AppendSkipLink(w, links, target, t) ==
  [w |-> w,
   links |-> Append(links, [label |-> t.label, href |-> "#" \o IdOf(w, target)])]

SkipTargetFound(p, t, target) ==
  AppendSkipLink(EnsureFocusable(EnsureId(p.w, target, t.id), target), p.links,
                 target, t)

FirstMatch(w, t) == SelectSeq(Order, LAMBDA e : MatchesTarget(w, t, e))

SkipTargetStep(p, t) ==
  IF FirstMatch(p.w, t) = <<>> THEN p ELSE SkipTargetFound(p, t, Head(FirstMatch(p.w, t)))

\* Only add if we have skip links
InsertSkipLinks(p) ==
  IF Len(p.links) > 0
    THEN addSkipLinkStyles(
           InsertCreated(p.w, NewNode(p.w, "skip-links-container", p.links)))
    ELSE p.w

MutCreateSkipLinksUnguarded(w) ==
  InsertSkipLinks(ForEach(SkipTargetStep, [w |-> w, links |-> <<>>], skipTargets))

createSkipLinks(w) ==
  IF getElementById(w, "skip-links-container")
    THEN w
    ELSE InsertSkipLinks(ForEach(SkipTargetStep, [w |-> w, links |-> <<>>],
                                 skipTargets))

\* -------------------------------------------------------- applyEnhancedFocus
MutApplyEnhancedFocusUnguarded(w) ==
  InsertCreated(w, NewNode(w, "screen-reader-focus-styles", <<>>))

applyEnhancedFocus(w) ==
  IF getElementById(w, "screen-reader-focus-styles")
    THEN w
    ELSE InsertCreated(w, NewNode(w, "screen-reader-focus-styles", <<>>))

\* -------------------------------------------------------- applyLandmarkRoles
SelTagNoRole(tag, w, e) == Tag[e] = tag /\ ~hasAttribute(w, e, "role")

\* document.querySelector(tag + ':not([role])') followed by the role write.
AssignRole(w, e, role) ==
  setAttribute(storeOriginalAttribute(w, e, "role"), e, "role", role)

TagNoRole(w, tag) == SelectSeq(Order, LAMBDA e : SelTagNoRole(tag, w, e))

FirstLandmark(w, tag, role) ==
  IF TagNoRole(w, tag) = <<>> THEN w ELSE AssignRole(w, Head(TagNoRole(w, tag)), role)

\* The nav and aside loops: role, and a numbered label when there is none.
\* if (!el.getAttribute('aria-label')) el.setAttribute('aria-label', label)
EnsureLabel(w, e, label) ==
  IF ~Truthy(getAttribute(w, e, "aria-label"))
    THEN setAttribute(w, e, "aria-label", label)
    ELSE w

LabelledLandmark(w, e, role, label) ==
  EnsureLabel(setAttribute(storeOriginalAttribute(
                             storeOriginalAttribute(w, e, "role"), e, "aria-label"),
                           e, "role", role),
              e, label)

NavLandmark(w, e, index) ==
  LabelledLandmark(w, e, "navigation",
                   IF index = 0 THEN "Main navigation"
                                ELSE "Navigation " \o ToString(index + 1))

AsideLandmark(w, e, index) ==
  LabelledLandmark(w, e, "complementary", "Sidebar " \o ToString(index + 1))

\* form[action*="search"], form.search, .search-form
SelSearchForm(w, e) ==
  \/ Tag[e] = "form" /\ getAttribute(w, e, "action") \in {"/search", "search"}
  \/ Tag[e] = "form" /\ "search" \in ClassList[e]
  \/ "search-form" \in ClassList[e]

SearchLandmark(w, e) ==
  IF ~Truthy(getAttribute(w, e, "role"))
    THEN setAttribute(storeOriginalAttribute(w, e, "role"), e, "role", "search")
    ELSE w

SelSectionUnlabelled(w, e) ==
  Tag[e] = "section" /\ ~hasAttribute(w, e, "aria-labelledby")

HeadingTags == {"h1", "h2", "h3", "h4", "h5", "h6"}

\* section.querySelector('h1, h2, h3, h4, h5, h6')
HeadingsOf(e) == SelectSeq(Order, LAMBDA h : Tag[h] \in HeadingTags /\ Parent[h] = e)

LabelBy(w, e, heading) ==
  setAttribute(storeOriginalAttribute(w, e, "aria-labelledby"), e, "aria-labelledby",
               IdOf(w, heading))

SectionLandmark(w, e, r) ==
  IF HeadingsOf(e) = <<>>
    THEN w
    ELSE LabelBy(EnsureId(w, Head(HeadingsOf(e)), "section-heading-" \o r), e,
                 Head(HeadingsOf(e)))

\* document.querySelectorAll(tag + ':not([role])').forEach((el, index) => ...)
ApplyIndexed(tag, Op(_, _, _), w) ==
  Then(w, LAMBDA x : ForEachIndexed(Op, x, TagNoRole(x, tag), 0))

\* The seven rules run in source order; the innermost application is the first.
applyLandmarkRoles(w, r) ==
  ApplyRule(SelSectionUnlabelled, LAMBDA x, e : SectionLandmark(x, e, r),
    ApplyRule(SelSearchForm, SearchLandmark,
      ApplyIndexed("aside", AsideLandmark,
        FirstLandmark(
          FirstLandmark(
            ApplyIndexed("nav", NavLandmark, FirstLandmark(w, "main", "main")),
            "header", "banner"),
          "footer", "contentinfo"))))

\* ---------------------------------------------------- createGlobalLiveRegion
\* liveRegionElement = createElement(...); appendChild; createdElements.push
InsertLiveRegion(w, region) == [InsertCreated(w, region) EXCEPT !.live = region.uid]

MutCreateGlobalLiveRegionUnguarded(w) ==
  InsertLiveRegion(w, NewNode(w, "screen-reader-live-region", <<>>))

createGlobalLiveRegion(w) ==
  IF w.live # Null
    THEN w
    ELSE InsertLiveRegion(w, NewNode(w, "screen-reader-live-region", <<>>))

\* ------------------------------------------------------ the global announcer
RegionId(region) ==
  IF region = "assertive" THEN ASSERTIVE_ANNOUNCER_ID ELSE POLITE_ANNOUNCER_ID

\* if (!document.getElementById(id)) create and append it
EnsureNode(w, id) ==
  IF getElementById(w, id)
    THEN w
    ELSE [w EXCEPT !.nodes = @ \cup {NewNode(w, id, <<>>)}]

\* Variant: the container and its regions are pushed to createdElements, as
\* the nodes of the mode are.
MutAnnouncerRegistered(w) ==
  LET Register(x, id) ==
        IF getElementById(x, id) THEN x ELSE InsertCreated(x, NewNode(x, id, <<>>))
  IN Register(Register(Register(w, ANNOUNCER_CONTAINER_ID), POLITE_ANNOUNCER_ID),
              ASSERTIVE_ANNOUNCER_ID)

getOrCreateAnnouncerContainer(w) ==
  EnsureNode(EnsureNode(EnsureNode(w, ANNOUNCER_CONTAINER_ID), POLITE_ANNOUNCER_ID),
             ASSERTIVE_ANNOUNCER_ID)

\* The toast node is created once; its text and opacity are presentation only.
showDebugToast(w, message, priority) == EnsureNode(w, "accessibility-debug-toast")

\* window.speechSynthesis.cancel()
stopSpeaking(w) == [w EXCEPT !.speech = <<>>]

MutSpeakAlwaysCancels(w, message, priority) ==
  [stopSpeaking(w) EXCEPT !.speech = Append(@, message)]

\* window.speechSynthesis.speak(utterance)
Speak(w, message) == [w EXCEPT !.speech = Append(@, message)]

speakMessage(w, message, priority) ==
  Speak(When(priority = "assertive", stopSpeaking, w), message)

\* Step 1 clears the region; step 2 is the outer requestAnimationFrame.
ClearAndDefer(w, message, priority) ==
  [w EXCEPT !.regionText[priority] = <<>>,
            !.raf = Append(@, [region |-> priority, message |-> message,
                               frames |-> 2])]

announceToScreenReader(w, message, priority) ==
  IF message = ""
    THEN w
    ELSE ClearAndDefer(
           getOrCreateAnnouncerContainer(
             When(w.speechOn, LAMBDA x : speakMessage(x, message, priority),
                  When(w.debug, LAMBDA x : showDebugToast(x, message, priority), w))),
           message, priority)

\* Variant: the outer callback writes the text itself, one frame early.
MutRafStepSingleFrame(w, cb) ==
  [w EXCEPT !.regionText[cb.region] = Append(@, cb.message),
            !.timers = Append(@, [kind |-> "clearRegion", delay |-> 5000,
                                  arg |-> cb.region])]

\* One animation frame: every callback registered before the frame runs, in
\* order.  An outer callback registers the inner one for the next frame; the
\* inner one appends the text node and starts the 5 second clear timer.
RafStep(w, cb) ==
  IF cb.frames = 2
    THEN [w EXCEPT !.raf = Append(@, [cb EXCEPT !.frames = 1])]
    ELSE [w EXCEPT !.regionText[cb.region] = Append(@, cb.message),
                   !.timers = Append(@, [kind |-> "clearRegion", delay |-> 5000,
                                         arg |-> cb.region])]

RunAnimationFrame(w) == ForEach(RafStep, [w EXCEPT !.raf = <<>>], w.raf)

\* ------------------------------------------------------------ focus reading
\* addEventListener with an already registered (handler, capture) pair is a no-op.
AddListener(w, event) == [w EXCEPT !.listeners[event] = IF @ = 0 THEN 1 ELSE @]
RemoveListener(w, event) == [w EXCEPT !.listeners[event] = IF @ > 0 THEN @ - 1 ELSE 0]

enableFocusReading(w) ==
  IF w.focusOn
    THEN w
    ELSE AddListener(AddListener([w EXCEPT !.focusOn = TRUE], "focusin"), "keydown")

\* Variant: the switch is cleared, the listeners stay registered.
MutDisableFocusReadingKeepsListeners(w) ==
  IF ~w.focusOn THEN w ELSE stopSpeaking([w EXCEPT !.focusOn = FALSE])

disableFocusReading(w) ==
  IF ~w.focusOn
    THEN w
    ELSE stopSpeaking(RemoveListener(RemoveListener([w EXCEPT !.focusOn = FALSE],
                                                    "focusin"), "keydown"))

\* ------------------------------------------------ enable / disable the mode
\* { ...defaultScreenReaderConfig, ...config }
FullConfig(config) ==
  [f \in Flags |->
     IF f \in DOMAIN config THEN config[f] ELSE defaultScreenReaderConfig[f]]

MarkBody(w) == [w EXCEPT !.bodyClass = TRUE, !.bodyDataSR = "enabled"]

\* if (fullConfig.readOnFocus && useSpeechSynthesis) enableFocusReading()
ReadOnFocusStep(w, fullConfig) ==
  When(fullConfig["readOnFocus"] /\ w.speechOn, enableFocusReading, w)

\* The features run in source order; the innermost application is the first.
EnableFeatures(w, fullConfig, r1, r2) ==
  ReadOnFocusStep(
    When(fullConfig["liveRegions"], createGlobalLiveRegion,
      When(fullConfig["landmarkRoles"], LAMBDA x : applyLandmarkRoles(x, r2),
        When(fullConfig["enhancedFocus"], applyEnhancedFocus,
          When(fullConfig["skipLinks"], createSkipLinks,
            When(fullConfig["enhancedAria"], LAMBDA x : applyEnhancedAria(x, r1),
                 MarkBody(w)))))),
    fullConfig)

enableScreenReaderMode(w, config, r1, r2) ==
  announceToScreenReader(EnableFeatures(w, FullConfig(config), r1, r2),
                         MsgEnabled, "polite")

\* originalAttributes.forEach: put back every recorded value.
RestoreAttributes(w) ==
  [w EXCEPT !.attrs =
     [e \in HostEls |->
        [a \in AttrNames |->
           IF w.orig[e][a] = NotStored THEN w.attrs[e][a] ELSE w.orig[e][a]]],
            !.orig = [e \in HostEls |-> [a \in AttrNames |-> NotStored]]]

\* Variant: the registry is emptied, its elements stay in the document.
MutRemoveCreatedKeepsNodes(w) == [w EXCEPT !.created = <<>>]

RemoveCreated(w) ==
  [ForEach(RemoveNode, w, w.created) EXCEPT !.created = <<>>]

UnmarkBody(w) == [w EXCEPT !.bodyClass = FALSE, !.bodyDataSR = Absent]

\* if (liveRegionElement) { liveRegionElement.remove(); liveRegionElement = null }
RemoveLiveRegion(w) ==
  IF w.live # Null THEN [RemoveNode(w, w.live) EXCEPT !.live = Null] ELSE w

\* getElementById('screen-reader-focus-styles')?.remove(): one element at most
RemoveFocusStyle(w) ==
  IF \E n \in w.nodes : n.id = "screen-reader-focus-styles"
    THEN RemoveNode(w, (CHOOSE n \in w.nodes :
                          n.id = "screen-reader-focus-styles").uid)
    ELSE w

disableScreenReaderMode(w) ==
  announceToScreenReader(
    disableFocusReading(
      RemoveFocusStyle(
        RemoveLiveRegion(RemoveCreated(RestoreAttributes(UnmarkBody(w)))))),
    MsgDisabled, "polite")

isScreenReaderModeEnabled(w) == w.bodyClass

\* ------------------------------------------------ the panel: setting domains
TextSizes == {"default", "small", "medium", "large", "extra-large"}
LineHeights == {"default", "tight", "normal", "relaxed", "loose"}
LetterSpacings == {"default", "tight", "normal", "wide", "extra-wide"}
WordSpacings == {"default", "tight", "normal", "wide", "extra-wide"}
ContrastLevels == {"default", "low", "high", "dark"}
SaturationLevels == {"normal", "low", "high"}
\* The built-in fonts; the customFonts prop is its default, the empty map.
FontFamilies == {"default", "sans-serif", "serif", "dyslexia-friendly"}

BooleanSettings ==
  {"screenReader", "monochrome", "hideImages", "highlightTitles", "highlightLinks"}

EnumSettings ==
  {"textSize", "lineHeight", "letterSpacing", "wordSpacing", "contrast",
   "saturation", "fontFamily"}

SettingNames == EnumSettings \cup BooleanSettings

Domain(setting) ==
  CASE setting = "textSize" -> TextSizes
    [] setting = "lineHeight" -> LineHeights
    [] setting = "letterSpacing" -> LetterSpacings
    [] setting = "wordSpacing" -> WordSpacings
    [] setting = "contrast" -> ContrastLevels
    [] setting = "saturation" -> SaturationLevels
    [] setting = "fontFamily" -> FontFamilies
    [] OTHER -> BOOLEAN

\* The useState initial values.
DefaultSettings ==
  [textSize |-> "default", lineHeight |-> "default", letterSpacing |-> "default",
   wordSpacing |-> "default", contrast |-> "default", saturation |-> "normal",
   screenReader |-> FALSE, monochrome |-> FALSE, hideImages |-> FALSE,
   highlightTitles |-> FALSE, highlightLinks |-> FALSE, fontFamily |-> "default"]

StorageKey(setting) ==
  CASE setting = "textSize" -> "accessibility-text-size"
    [] setting = "lineHeight" -> "accessibility-line-height"
    [] setting = "letterSpacing" -> "accessibility-letter-spacing"
    [] setting = "wordSpacing" -> "accessibility-word-spacing"
    [] setting = "contrast" -> "accessibility-contrast"
    [] setting = "saturation" -> "accessibility-saturation"
    [] setting = "fontFamily" -> "accessibility-font-family"
    [] setting = "screenReader" -> "accessibility-screen-reader"
    [] setting = "monochrome" -> "accessibility-monochrome"
    [] setting = "hideImages" -> "accessibility-hide-images"
    [] setting = "highlightTitles" -> "accessibility-highlight-titles"
    [] setting = "highlightLinks" -> "accessibility-highlight-links"

StorageKeys == {StorageKey(setting) : setting \in SettingNames}

\* getItem's null.
NoItem == "<null>"

\* checked.toString()
BooleanToString(b) == IF b THEN "true" ELSE "false"

\* The string a handler or Save writes for a value of a setting.
StoredString(setting, v) ==
  IF setting \in BooleanSettings THEN BooleanToString(v) ELSE v

\* ------------------------------------------- the panel: document effects
StyleProperties ==
  {"--accessibility-font-family", "body.fontFamily", "--font-scale",
   "--line-height-scale", "--letter-spacing-scale", "--word-spacing-scale",
   "filter"}

\* The value of an inline style property that was never set.
Unset == ""

ManagedStyleIds ==
  {"accessibility-contrast-style", "accessibility-highlight-titles-style",
   "accessibility-highlight-links-style"}

\* The host's img elements in document order.
Images == SelectSeq(Order, LAMBDA e : Tag[e] = "img")

\* document.querySelectorAll('img:not([aria-hidden="true"])')
QueryImages(w) ==
  SelectSeq(Images, LAMBDA e : e \in w.attached /\ w.attrs[e]["aria-hidden"] # "true")

\* img.alt || 'Image'
AltText(w, img) ==
  IF w.attrs[img]["alt"] \in {Absent, ""} THEN "Image" ELSE w.attrs[img]["alt"]

setProperty(w, property, value) == [w EXCEPT !.style[property] = value]

getFontFamilyValue(font) ==
  CASE font = "default" -> "inherit"
    [] font = "sans-serif" ->
         "system-ui, -apple-system, BlinkMacSystemFont, \"Segoe UI\", Roboto, \"Helvetica Neue\", Arial, sans-serif"
    [] font = "serif" -> "Georgia, \"Times New Roman\", Times, serif"
    [] font = "dyslexia-friendly" ->
         "\"OpenDyslexic\", \"Open Dyslexic\", \"Comic Sans MS\", \"Trebuchet MS\", \"Verdana\", sans-serif"
    [] OTHER -> "inherit"

applyFontFamily(w, s) ==
  setProperty(setProperty(w, "--accessibility-font-family",
                          getFontFamilyValue(s.fontFamily)),
              "body.fontFamily", getFontFamilyValue(s.fontFamily))

getFontScaleValue(size) ==
  CASE size = "default" -> "1"
    [] size = "small" -> "0.875"
    [] size = "medium" -> "1"
    [] size = "large" -> "1.25"
    [] size = "extra-large" -> "1.5"

applyFontScale(w, s) == setProperty(w, "--font-scale", getFontScaleValue(s.textSize))

getLineHeightValue(level) ==
  CASE level = "default" -> "1"
    [] level = "tight" -> "0.75"
    [] level = "normal" -> "1"
    [] level = "relaxed" -> "1.5"
    [] level = "loose" -> "2"

applyLineHeight(w, s) ==
  setProperty(w, "--line-height-scale", getLineHeightValue(s.lineHeight))

getLetterSpacingValue(level) ==
  CASE level = "default" -> "1"
    [] level = "tight" -> "0.5"
    [] level = "normal" -> "1"
    [] level = "wide" -> "1.5"
    [] level = "extra-wide" -> "2"

applyLetterSpacing(w, s) ==
  setProperty(w, "--letter-spacing-scale", getLetterSpacingValue(s.letterSpacing))

getWordSpacingValue(level) ==
  CASE level = "default" -> "1"
    [] level = "tight" -> "0.5"
    [] level = "normal" -> "1"
    [] level = "wide" -> "1.5"
    [] level = "extra-wide" -> "2"

applyWordSpacing(w, s) ==
  setProperty(w, "--word-spacing-scale", getWordSpacingValue(s.wordSpacing))

\* Array.prototype.join
RECURSIVE Join(_, _)
Join(strings, separator) ==
  IF strings = <<>> THEN ""
  ELSE IF Len(strings) = 1 THEN strings[1]
  ELSE strings[1] \o separator \o Join(Tail(strings), separator)

\* Variant: the saturation filter is pushed before the grayscale filter.
MutFiltersSaturationFirst(monochrome, saturation) ==
  (CASE saturation = "low" -> <<"saturate(0.5)">>
     [] saturation = "high" -> <<"saturate(1.5)">>
     [] OTHER -> <<>>)
  \o (IF monochrome THEN <<"grayscale(100%)">> ELSE <<>>)

\* The filters array after the pushes.
Filters(monochrome, saturation) ==
  (IF monochrome THEN <<"grayscale(100%)">> ELSE <<>>)
  \o (CASE saturation = "low" -> <<"saturate(0.5)">>
         [] saturation = "high" -> <<"saturate(1.5)">>
         [] OTHER -> <<>>)

\* filters.length > 0 ? filters.join(' ') : ''
FilterValue(monochrome, saturation) ==
  IF Len(Filters(monochrome, saturation)) > 0
    THEN Join(Filters(monochrome, saturation), " ")
    ELSE ""

applyFilters(w, s) == setProperty(w, "filter", FilterValue(s.monochrome, s.saturation))

ImageSet == {Images[i] : i \in 1..Len(Images)}

\* No handleSaveSettings call is waiting for its writes.
NoSave == [pending |-> FALSE]

\* No change handler has run.
NoChange == [setting |-> "<none>"]

\* Variant: an image is processed whether or not it carries the marker.
MutHideImageUnguarded(w, img) ==
  [w EXCEPT !.dataset = @ \cup {img},
            !.saved[img] = w.display[img],
            !.display[img] = "none",
            !.placeholders[img] = <<AltText(w, img)>> \o @,
            !.phRef = @ \cup {img}]

\* The image is hidden, its placeholder inserted after it and recorded.
HideImage(w, img) ==
  IF img \in w.dataset
    THEN w
    ELSE [w EXCEPT !.dataset = @ \cup {img},
                   !.saved[img] = w.display[img],
                   !.display[img] = "none",
                   !.placeholders[img] = <<AltText(w, img)>> \o @,
                   !.phRef = @ \cup {img}]

\* Variant: the image's inline display is cleared instead of restored.
MutRestoreImageClearsDisplay(w, img) ==
  IF img \in w.dataset
    THEN [w EXCEPT !.dataset = @ \ {img},
                   !.display[img] = Unset,
                   !.saved[img] = Absent,
                   !.placeholders[img] =
                      IF img \in w.phRef /\ @ # <<>> THEN Tail(@) ELSE @,
                   !.phRef = @ \ {img}]
    ELSE w

\* The image is shown again; its placeholder is removed when the map has it.
RestoreImage(w, img) ==
  IF img \in w.dataset
    THEN [w EXCEPT !.dataset = @ \ {img},
                   !.display[img] = w.saved[img],
                   !.saved[img] = Absent,
                   !.placeholders[img] =
                      IF img \in w.phRef /\ @ # <<>> THEN Tail(@) ELSE @,
                   !.phRef = @ \ {img}]
    ELSE w

applyHideImages(w, enabled) ==
  IF enabled
    THEN ForEach(HideImage, w, QueryImages(w))
    ELSE ForEach(RestoreImage, w, QueryImages(w))

\* styleElement.textContent of the contrast style element
ContrastRules(level) ==
  CASE level = "low" -> "/* Low Contrast Mode */"
    [] level = "high" -> "/* High Contrast Mode */"
    [] level = "dark" -> "/* Dark Mode */"
    [] OTHER -> ""

\* The element document.getElementById finds is removed.
RemoveFirst(elements) == IF elements = <<>> THEN elements ELSE Tail(elements)

\* Variant: the existing contrast style element is left in place.
MutApplyContrastKeepsOld(w, level) ==
  IF level = "default"
    THEN [w EXCEPT !.dataContrast = Absent]
    ELSE [w EXCEPT !.sheets["accessibility-contrast-style"] =
                      Append(@, ContrastRules(level)),
                   !.dataContrast = level]

applyContrast(w, level) ==
  IF level = "default"
    THEN [w EXCEPT !.sheets["accessibility-contrast-style"] = RemoveFirst(@),
                   !.dataContrast = Absent]
    ELSE [w EXCEPT !.sheets["accessibility-contrast-style"] =
                      Append(RemoveFirst(@), ContrastRules(level)),
                   !.dataContrast = level]

\* Variant: disabling empties the style element and leaves it in the head.
MutToggleStyleLeavesEmpty(w, styleId, enabled, rules) ==
  [w EXCEPT !.sheets[styleId] =
              IF enabled
                THEN IF @ = <<>> THEN <<rules>> ELSE [@ EXCEPT ![1] = rules]
                ELSE IF @ = <<>> THEN @ ELSE [@ EXCEPT ![1] = ""]]

\* The style element document.getElementById finds is created when missing
\* and its rules (re)written, or it is removed.
ToggleStyle(w, styleId, enabled, rules) ==
  [w EXCEPT !.sheets[styleId] =
              IF enabled
                THEN IF @ = <<>> THEN <<rules>> ELSE [@ EXCEPT ![1] = rules]
                ELSE RemoveFirst(@)]

applyHighlightTitles(w, enabled) ==
  ToggleStyle(w, "accessibility-highlight-titles-style", enabled,
              "/* heading highlight */")

applyHighlightLinks(w, enabled) ==
  ToggleStyle(w, "accessibility-highlight-links-style", enabled,
              "/* link highlight */")

\* ------------------------------------------------- the panel: announcements
\* announcementRef.current.textContent = message, cleared one second later.
\* Assigning textContent replaces the children, a mutation below the body.
SetAnnouncementText(w, message) ==
  [w EXCEPT !.status = message,
            !.records = TRUE,
            !.timers = Append(@, [kind |-> "clearStatus", delay |-> 1000,
                                  arg |-> ""])]

\* screenReader is the value the calling render closed over.
announceChange(w, screenReader, message) ==
  IF ~screenReader
    THEN w
    ELSE SetAnnouncementText(announceToScreenReader(w, message, "polite"), message)

\* ------------------------------------------ the hide-images mutation watcher
\* style elements live in the head; every other created node is below the body
HeadIds == {"skip-link-styles", "screen-reader-focus-styles"}

BodyNodes(w) == {n \in w.nodes : n.id \notin HeadIds}

\* The task that took the document from w0 to w1 changed a child list below
\* the body.
BodyMutated(w0, w1) ==
  \/ w1.records
  \/ BodyNodes(w0) # BodyNodes(w1)
  \/ w0.regionText # w1.regionText
  \/ w0.placeholders # w1.placeholders

\* The observer's callback runs after the task when the observer was
\* connected while the task mutated the body and was not disconnected by it.
\* The placeholders the callback inserts call it once more, to no effect.
DeliverMutations(w0, w1, connected) ==
  IF connected /\ BodyMutated(w0, w1) THEN applyHideImages(w1, TRUE) ELSE w1

\* ------------------------------------------------------ the panel: loading
getItem(stor, setting) == stor[StorageKey(setting)]

\* Variant: any stored string switches the toggle on.
MutLoadBooleanAnyString(saved, current) == saved # NoItem

\* if (saved !== null) setX(saved === 'true')
LoadBoolean(saved, current) == IF saved # NoItem THEN saved = "true" ELSE current

\* if (saved !== null && (saved === 'a' || saved === 'b' ...)) setX(saved)
LoadEnum(saved, domain, current) ==
  IF saved # NoItem /\ saved \in domain THEN saved ELSE current

\* if (savedFontFamily !== null) setFontFamily(savedFontFamily)
LoadFontFamily(saved, current) == IF saved # NoItem THEN saved ELSE current

\* The in-memory settings once loadSettings has read every key.
LoadedSettings(stor, s) ==
  [textSize |-> LoadEnum(getItem(stor, "textSize"), TextSizes, s.textSize),
   lineHeight |-> LoadEnum(getItem(stor, "lineHeight"), LineHeights, s.lineHeight),
   letterSpacing |->
     LoadEnum(getItem(stor, "letterSpacing"), LetterSpacings, s.letterSpacing),
   wordSpacing |-> LoadEnum(getItem(stor, "wordSpacing"), WordSpacings, s.wordSpacing),
   contrast |-> LoadEnum(getItem(stor, "contrast"), ContrastLevels, s.contrast),
   saturation |-> LoadEnum(getItem(stor, "saturation"), SaturationLevels, s.saturation),
   screenReader |-> LoadBoolean(getItem(stor, "screenReader"), s.screenReader),
   monochrome |-> LoadBoolean(getItem(stor, "monochrome"), s.monochrome),
   hideImages |-> LoadBoolean(getItem(stor, "hideImages"), s.hideImages),
   highlightTitles |-> LoadBoolean(getItem(stor, "highlightTitles"), s.highlightTitles),
   highlightLinks |-> LoadBoolean(getItem(stor, "highlightLinks"), s.highlightLinks),
   fontFamily |-> LoadFontFamily(getItem(stor, "fontFamily"), s.fontFamily)]

Timer(kind, delay, arg) == [kind |-> kind, delay |-> delay, arg |-> arg]

\* if (condition) setTimeout(callback, 100)
TimerIf(condition, kind, arg) ==
  IF condition THEN <<Timer(kind, 100, arg)>> ELSE <<>>

\* The timers loadSettings starts, in the order of its reads; the last one
\* ends the initial load.
LoadTimers(stor, s) ==
  TimerIf(getItem(stor, "hideImages") # NoItem /\ s.hideImages, "applyHideImages", "")
  \o TimerIf(getItem(stor, "highlightTitles") # NoItem /\ s.highlightTitles,
              "applyHighlightTitles", "")
  \o TimerIf(getItem(stor, "highlightLinks") # NoItem /\ s.highlightLinks,
              "applyHighlightLinks", "")
  \o TimerIf(getItem(stor, "contrast") \in ContrastLevels \ {"default"},
              "applyContrast", s.contrast)
  \o TimerIf(getItem(stor, "screenReader") # NoItem /\ s.screenReader,
              "enableScreenReaderMode", "")
  \o <<Timer("endInitialLoad", 200, "")>>

\* setSpeechSynthesis(shouldEnableScreenReader), when the key is stored
LoadSpeechSynthesis(w, stor) ==
  IF getItem(stor, "screenReader") # NoItem
    THEN [w EXCEPT !.speechOn = (getItem(stor, "screenReader") = "true")]
    ELSE w

StartTimers(w, ts) == [w EXCEPT !.timers = @ \o ts]

\* ------------------------------------------------ the panel: gated effects
\* The effects whose dependencies changed between two renders, in the order
\* they are declared; the innermost application is the first.
Effects(w, prev, s) ==
  When(prev.highlightLinks # s.highlightLinks,
       LAMBDA x : applyHighlightLinks(x, s.highlightLinks),
    When(prev.highlightTitles # s.highlightTitles,
         LAMBDA x : applyHighlightTitles(x, s.highlightTitles),
      When(prev.contrast # s.contrast, LAMBDA x : applyContrast(x, s.contrast),
        When(prev.wordSpacing # s.wordSpacing, LAMBDA x : applyWordSpacing(x, s),
          When(prev.letterSpacing # s.letterSpacing,
               LAMBDA x : applyLetterSpacing(x, s),
            When(prev.lineHeight # s.lineHeight, LAMBDA x : applyLineHeight(x, s),
              When(prev.textSize # s.textSize, LAMBDA x : applyFontScale(x, s),
                When(prev.fontFamily # s.fontFamily,
                     LAMBDA x : applyFontFamily(x, s),
                  When(prev.monochrome # s.monochrome
                         \/ prev.saturation # s.saturation,
                       LAMBDA x : applyFilters(x, s), w)))))))))

\* Variant: the effects apply whatever the refs say.
MutEffectsUngated(w, prev, s, gate) == Effects(w, prev, s)

\* if (shouldApplyEffectsRef.current || isInitialLoadRef.current) apply()
GatedEffects(w, prev, s, gate) == IF gate THEN Effects(w, prev, s) ELSE w

\* Every gated effect runs after the first render.
MountEffects(w, s) ==
  applyHighlightLinks(
    applyHighlightTitles(
      applyContrast(
        applyWordSpacing(
          applyLetterSpacing(
            applyLineHeight(applyFontScale(applyFontFamily(applyFilters(w, s), s), s),
                            s), s), s), s.contrast),
      s.highlightTitles),
    s.highlightLinks)

\* Variant: the effect returns no cleanup, an observer once connected stays.
MutObserverNoCleanup(prev, s, gate, connected) ==
  IF prev.hideImages # s.hideImages THEN (s.hideImages /\ gate) \/ connected
  ELSE connected

\* The hide-images effect: its cleanup disconnects the observer whenever
\* hideImages changed, and a new one is connected when the setting is on and
\* the gate is open.
ObserverAfterRender(prev, s, gate, connected) ==
  IF prev.hideImages # s.hideImages THEN s.hideImages /\ gate ELSE connected

\* ------------------------------------------------------------ initial states
BaseAttrs ==
  [e \in HostEls |->
     [a \in AttrNames |->
        CASE e = "iconlink" /\ a = "href" -> "/cart"
          [] e = "navlink" /\ a = "href" -> "/"
          [] e = "email" /\ a = "id" -> "email"
          [] e = "label" /\ a = "for" -> "email"
          [] e = "footer" /\ a = "id" -> ""
          [] e = "navlink" /\ a = "aria-current" -> "true"
          [] e = "aside" /\ a = "aria-label" -> "Related"
          [] e = "nav" /\ a = "tabindex" -> "0"
          [] e = "logo" /\ a = "alt" -> "Company logo"
          [] OTHER -> Absent]]

\* The attributes whose initial value ranges over more than one fixture.
VaryPairs == {<<"main", "id">>}

VaryDom(p) == {Absent, "app"}

Fixtures ==
  {[e \in HostEls |->
      [a \in AttrNames |->
         IF <<e, a>> \in VaryPairs THEN c[<<e, a>>] ELSE BaseAttrs[e][a]]] :
     c \in {f \in [VaryPairs -> {Absent, "app"}] :
              \A p \in VaryPairs : f[p] \in VaryDom(p)}}

\* Elements of the document: the host skeleton plus every created node and
\* the skip links inside a skip-link container.
RECURSIVE CreatedCount(_)
CreatedCount(S) ==
  IF S = {} THEN 0
  ELSE LET n == CHOOSE x \in S : TRUE
       IN 1 + Len(n.links) + CreatedCount(S \ {n})

ElementCount(w) == Cardinality(HostEls) + CreatedCount(w.nodes)

Snapshot(w) == [attrs |-> w.attrs, count |-> ElementCount(w)]

\* The module's variables as declared, in an untouched document.
EngineStart ==
  /\ bodyClass = FALSE
  /\ bodyDataSR = Absent
  /\ nodes = {}
  /\ originalAttributes = [e \in HostEls |-> [a \in AttrNames |-> NotStored]]
  /\ createdElements = <<>>
  /\ liveRegionElement = Null
  /\ debugMode = FALSE
  /\ useSpeechSynthesis = FALSE
  /\ focusReadingEnabled = FALSE
  /\ listeners = [ev \in {"focusin", "keydown"} |-> 0]
  /\ regionText = [r \in Regions |-> <<>>]
  /\ rafQueue = <<>>
  /\ timers = <<>>
  /\ speech = <<>>

EngineInit ==
  /\ EngineStart
  /\ activeElement = "body"

\* No announcement is followed.
NoAnnouncement ==
  [message |-> "", priority |-> "polite", other |-> <<>>, phase |-> "none"]

ObserverStart ==
  /\ pre = [attrs |-> attrs, count |-> Cardinality(HostEls)]
  /\ enables = 0
  /\ inSession = FALSE
  /\ resets = 0
  /\ interference = 0
  /\ announced = NoAnnouncement
  /\ escaped = {}
  /\ lastOp = "init"

\* The page runs in a browser.
ObserverInit == documentDefined = TRUE /\ ObserverStart

\* useState / useRef initial values and the untouched document.
PanelInit ==
  /\ rootStyle = [property \in StyleProperties |-> Unset]
  /\ dataContrast = Absent
  /\ styleSheets = [id \in ManagedStyleIds |-> <<>>]
  /\ imageDataset = {}
  /\ originalDisplay = [img \in ImageSet |-> Absent]
  /\ attached = ImageSet
  /\ placeholders = [img \in ImageSet |-> <<>>]
  /\ announcementText = ""
  /\ imagePlaceholdersRef = {}
  /\ mounted = FALSE
  /\ settings = DefaultSettings
  /\ hasUnsavedChanges = FALSE
  /\ isSaving = FALSE
  /\ shouldApplyEffectsRef = (saveMode = "auto")
  /\ isInitialLoadRef = TRUE
  /\ observing = FALSE
  /\ saving = NoSave
  /\ changes = 0
  /\ lastChange = NoChange

\* The keys of the panel's placement, which loadSettings reads and handleReset
\* removes; the placement itself is not part of the model.
PlacementKeys == {"accessibility-position", "accessibility-theme"}

AllKeys == StorageKeys \cup PlacementKeys

EmptyStorage == [key \in AllKeys |-> NoItem]

\* A position and a theme were stored.
PlacementStored ==
  [EmptyStorage EXCEPT !["accessibility-position"] = "top-left",
                       !["accessibility-theme"] = "dark"]

\* The inline display of the host's images.
HostImageStyle == [img \in ImageSet |-> IF img = "logo" THEN "block" ELSE Unset]

\* The engine used on its own: no panel is mounted.
InitSR ==
  /\ attrs \in Fixtures
  /\ EngineInit
  /\ ObserverInit
  /\ saveMode = "auto"
  /\ storageHandler = "webStorage"
  /\ storage = EmptyStorage
  /\ imageStyle = HostImageStyle
  /\ PanelInit

\* ------------------------------------------------------------------ actions
Commit(w) ==
  /\ attrs' = w.attrs
  /\ bodyClass' = w.bodyClass
  /\ bodyDataSR' = w.bodyDataSR
  /\ nodes' = w.nodes
  /\ originalAttributes' = w.orig
  /\ createdElements' = w.created
  /\ liveRegionElement' = w.live
  /\ debugMode' = w.debug
  /\ useSpeechSynthesis' = w.speechOn
  /\ focusReadingEnabled' = w.focusOn
  /\ listeners' = w.listeners
  /\ regionText' = w.regionText
  /\ rafQueue' = w.raf
  /\ timers' = w.timers
  /\ speech' = w.speech
  /\ activeElement' = w.active
  /\ rootStyle' = w.style
  /\ dataContrast' = w.dataContrast
  /\ styleSheets' = w.sheets
  /\ imageDataset' = w.dataset
  /\ originalDisplay' = w.saved
  /\ imageStyle' = w.display
  /\ attached' = w.attached
  /\ placeholders' = w.placeholders
  /\ announcementText' = w.status
  /\ imagePlaceholdersRef' = w.phRef

\* Outstanding work of earlier announcements.
AnnouncementTimers ==
  SelectSeq(timers, LAMBDA t : t.kind \in {"clearRegion", "clearStatus"})

\* Room for one more announcement (bounds of the model).
Room == Len(rafQueue) + Len(AnnouncementTimers) + Len(speech) < MaxPending

\* A task starts only when no continuation of the running one is waiting:
\* microtasks run before the next task.  The continuation of a Save over an
\* asynchronous storage handler waits for a later task.
Idle == ~saving.pending \/ storageHandler = "async"

PanelConfig ==
  [f \in {"enhancedAria", "skipLinks", "enhancedFocus", "landmarkRoles",
          "liveRegions"} |-> TRUE]

\* The configurations the mode is enabled with: the defaults, the panel's,
\* and two partial ones that switch complementary halves of the features off.
Configs ==
  {<<>>, PanelConfig,
   [f \in {"enhancedAria", "skipLinks"} |-> FALSE],
   [f \in {"enhancedFocus", "landmarkRoles", "liveRegions", "readOnFocus"} |-> FALSE]}

Observe(op) ==
  /\ lastOp' = op
  /\ UNCHANGED <<pre, enables, inSession, resets, interference, announced,
                 escaped, documentDefined>>

EnableScreenReaderMode(config) ==
  /\ ~mounted
  /\ Room
  /\ inSession => enables < MaxEnables
  /\ \E r \in RandomSuffixes :
       Commit(enableScreenReaderMode(World, config, r, r))
  /\ pre' = IF inSession THEN pre ELSE Snapshot(World)
  /\ enables' = IF inSession THEN enables + 1 ELSE 1
  /\ inSession' = TRUE
  /\ lastOp' = "enable"
  /\ UNCHANGED <<resets, interference, announced, escaped, documentDefined>>
  /\ UNCHANGED panelVars

DisableScreenReaderMode ==
  /\ ~mounted
  /\ Room
  /\ Commit(disableScreenReaderMode(World))
  /\ inSession' = FALSE
  /\ lastOp' = "disable"
  /\ UNCHANGED <<pre, enables, resets, interference, announced, escaped, documentDefined>>
  /\ UNCHANGED panelVars

InitializeAnnouncer(debug, speechSynthesis) ==
  /\ ~mounted
  /\ Commit(getOrCreateAnnouncerContainer(
              [World EXCEPT !.debug = IF debug THEN TRUE ELSE @,
                            !.speechOn = IF speechSynthesis THEN TRUE ELSE @]))
  /\ Observe("other")
  /\ UNCHANGED panelVars

AnnounceToScreenReader(message, priority) ==
  /\ ~mounted
  /\ Room
  /\ Commit(announceToScreenReader(World, message, priority))
  /\ Observe("other")
  /\ UNCHANGED panelVars

SetSpeechSynthesis(enabled) ==
  /\ ~mounted
  /\ useSpeechSynthesis # enabled
  /\ Commit([World EXCEPT !.speechOn = enabled])
  /\ Observe("other")
  /\ UNCHANGED panelVars

SetAnnouncerDebugMode(enabled) ==
  /\ ~mounted
  /\ debugMode # enabled
  /\ Commit([World EXCEPT !.debug = enabled])
  /\ Observe("other")
  /\ UNCHANGED panelVars

\* A task of the browser that runs no handler of the panel: the observer's
\* callback follows it when it mutated the body.
Followed(w, a) ==
  /\ Idle
  /\ Commit(DeliverMutations(World, w, observing))
  /\ lastOp' = "other"
  /\ announced' = a
  /\ UNCHANGED <<pre, enables, inSession, resets, interference, escaped, documentDefined>>
  /\ UNCHANGED panelVars

Task(w) == Followed(w, announced)

\* The followed announcement has seen one more animation frame.
AfterFrame(a) ==
  CASE a.phase = "called" -> [a EXCEPT !.phase = "one frame"]
    [] a.phase = "one frame" -> [a EXCEPT !.phase = "two frames"]
    [] OTHER -> a

\* A 5 second timer of the followed announcement's region has fired.
AfterClear(a, region) ==
  IF a.phase = "two frames" /\ a.priority = region
    THEN [a EXCEPT !.phase = "cleared"]
    ELSE a

AnimationFrame ==
  /\ rafQueue # <<>>
  /\ Followed(RunAnimationFrame(World), AfterFrame(announced))

\* A timer may fire once no timer scheduled before it is due earlier.
TimerDue(i) == \A j \in 1..(i - 1) : timers[j].delay > timers[i].delay

RemoveAt(s, i) == SubSeq(s, 1, i - 1) \o SubSeq(s, i + 1, Len(s))

\* setTimeout(() => { while (announcer.firstChild) removeChild }, 5000)
ClearRegionTimer(i) ==
  /\ i \in 1..Len(timers)
  /\ timers[i].kind = "clearRegion"
  /\ TimerDue(i)
  /\ Followed([World EXCEPT !.regionText[timers[i].arg] = <<>>,
                            !.timers = RemoveAt(@, i)],
              AfterClear(announced, timers[i].arg))

\* The synthesizer finishes the utterance at the head of its queue.
UtteranceEnd ==
  /\ speech # <<>>
  /\ Task([World EXCEPT !.speech = Tail(@)])

\* --------------------------------------------------- the panel: mounting
\* The configuration the panel enables the mode with.
EnableFromPanel(w, r) == enableScreenReaderMode(w, PanelConfig, r, r)

\* The document after the mount effects: the announcer is initialised, the
\* gated effects apply the defaults, loadSettings reads every key (the Web
\* Storage of getStorage answers synchronously, so its awaits resume before
\* any other task), and the render that follows applies what was loaded.
MountWorld(w, stor, s) ==
  Effects(
    StartTimers(
      LoadSpeechSynthesis(MountEffects(getOrCreateAnnouncerContainer(w),
                                       DefaultSettings),
                          stor),
      LoadTimers(stor, s)),
    DefaultSettings, s)

Mount ==
  /\ ~mounted
  /\ mounted' = TRUE
  /\ settings' = LoadedSettings(storage, settings)
  /\ Commit(MountWorld(World, storage, LoadedSettings(storage, settings)))
  /\ observing' = LoadedSettings(storage, settings).hideImages
  /\ Observe("other")
  /\ UNCHANGED <<saveMode, storageHandler, storage, hasUnsavedChanges, isSaving,
                 shouldApplyEffectsRef, isInitialLoadRef, saving, changes,
                 lastChange>>

\* The keys in the order loadSettings reads them.
ReadOrder ==
  <<"accessibility-monochrome", "accessibility-saturation",
    "accessibility-hide-images", "accessibility-highlight-titles",
    "accessibility-highlight-links", "accessibility-contrast",
    "accessibility-position", "accessibility-theme", "accessibility-font-family",
    "accessibility-text-size", "accessibility-line-height",
    "accessibility-letter-spacing", "accessibility-word-spacing",
    "accessibility-screen-reader">>

\* What loadSettings has seen of the storage when its n-th read fails: the
\* keys read before, and nothing of the others.
ReadBefore(stor, n) ==
  [key \in AllKeys |->
     IF \E i \in 1..(n - 1) : ReadOrder[i] = key THEN stor[key] ELSE NoItem]

\* The timers loadSettings has started by then: the one that ends the initial
\* load is started after the last read.
TimersBefore(stor, s) == SubSeq(LoadTimers(stor, s), 1, Len(LoadTimers(stor, s)) - 1)

\* The mount over a storage whose n-th getItem throws or rejects: the await
\* of that read rejects the promise of loadSettings, which the effect drops;
\* what was read before is loaded, the rest of loadSettings does not run.
MountRejected(n) ==
  /\ ~mounted
  /\ mounted' = TRUE
  /\ \E seen \in {ReadBefore(storage, n)} :
       /\ settings' = LoadedSettings(seen, settings)
       /\ Commit(Effects(
                   StartTimers(
                     LoadSpeechSynthesis(
                       MountEffects(getOrCreateAnnouncerContainer(World),
                                    DefaultSettings),
                       seen),
                     TimersBefore(seen, LoadedSettings(seen, settings))),
                   DefaultSettings, LoadedSettings(seen, settings)))
       /\ observing' = LoadedSettings(seen, settings).hideImages
  /\ lastOp' = "other"
  /\ escaped' = escaped \cup {"loadSettings"}
  /\ UNCHANGED <<pre, enables, inSession, resets, interference, announced,
                 documentDefined>>
  /\ UNCHANGED <<saveMode, storageHandler, storage, hasUnsavedChanges, isSaving,
                 shouldApplyEffectsRef, isInitialLoadRef, saving, changes,
                 lastChange>>

\* A timer callback of the panel: a task that leaves the panel's state alone.
PanelTimer(i, kind) ==
  /\ i \in 1..Len(timers)
  /\ timers[i].kind = kind
  /\ TimerDue(i)

Fired(w, i) == [w EXCEPT !.timers = RemoveAt(@, i)]

ApplyHideImagesTimer(i) ==
  /\ PanelTimer(i, "applyHideImages")
  /\ Task(applyHideImages(Fired(World, i), TRUE))

ApplyHighlightTitlesTimer(i) ==
  /\ PanelTimer(i, "applyHighlightTitles")
  /\ Task(applyHighlightTitles(Fired(World, i), TRUE))

ApplyHighlightLinksTimer(i) ==
  /\ PanelTimer(i, "applyHighlightLinks")
  /\ Task(applyHighlightLinks(Fired(World, i), TRUE))

ApplyContrastTimer(i) ==
  /\ PanelTimer(i, "applyContrast")
  /\ Task(applyContrast(Fired(World, i), timers[i].arg))

EnableScreenReaderTimer(i) ==
  /\ PanelTimer(i, "enableScreenReaderMode")
  /\ \E r \in RandomSuffixes : Task(EnableFromPanel(Fired(World, i), r))

\* announcementRef.current.textContent = ''
ClearStatusTimer(i) ==
  /\ PanelTimer(i, "clearStatus")
  /\ Task([Fired(World, i) EXCEPT !.status = "",
                                  !.records = announcementText # ""])

\* isInitialLoadRef.current = false; shouldApplyEffectsRef.current = auto
EndInitialLoad(i) ==
  /\ PanelTimer(i, "endInitialLoad")
  /\ Idle
  /\ isInitialLoadRef' = FALSE
  /\ shouldApplyEffectsRef' = (saveMode = "auto")
  /\ Commit(Fired(World, i))
  /\ Observe("other")
  /\ UNCHANGED <<saveMode, storageHandler, mounted, settings, storage, hasUnsavedChanges,
                 isSaving, observing, saving, changes, lastChange>>

\* ------------------------------------------------ the panel: change handlers
\* Variant: the value is written in both modes.
MutConditionalSaveAlways(stor, setting, v) ==
  [stor EXCEPT ![StorageKey(setting)] = StoredString(setting, v)]

\* Variant: the value is written in neither mode.
MutConditionalSaveNever(stor, setting, v) == stor

\* conditionalSave: the value is written at once in auto mode.
conditionalSave(stor, setting, v) ==
  IF saveMode = "auto"
    THEN [stor EXCEPT ![StorageKey(setting)] = StoredString(setting, v)]
    ELSE stor

\* The render after the first unsaved change inserts the indicator dot into
\* the Save button: a mutation below the body.
UnsavedDotRendered(w) ==
  IF saveMode = "manual" /\ ~hasUnsavedChanges THEN [w EXCEPT !.records = TRUE] ELSE w

\* A change handler: direct is the document after the handler's own apply
\* calls, announce tells whether it calls announceChange.  The controls
\* report a value other than the current one.  The handler, the render it
\* causes and that render's effects are one task.  accepts tells whether the
\* storage takes the write: setItem throws or rejects otherwise, which
\* rejects the promise of conditionalSave; the handler does not await it and
\* attaches no handler to it.
ChangeSettingStoring(accepts, setting, v, direct, announce, message) ==
  /\ mounted
  /\ Idle
  /\ changes < MaxChanges
  /\ v \in Domain(setting)
  /\ v # settings[setting]
  /\ (announce /\ settings.screenReader) => Room
  /\ \E s \in {[settings EXCEPT ![setting] = v]},
        w1 \in {UnsavedDotRendered(
                  announceChange(direct, announce /\ settings.screenReader, message))} :
       /\ settings' = s
       /\ Commit(GatedEffects(
                   DeliverMutations(World, w1, observing /\ setting # "hideImages"),
                   settings, s, shouldApplyEffectsRef \/ isInitialLoadRef))
       /\ observing' = ObserverAfterRender(settings, s,
                           shouldApplyEffectsRef \/ isInitialLoadRef, observing)
  /\ storage' = IF accepts THEN conditionalSave(storage, setting, v) ELSE storage
  /\ hasUnsavedChanges' = IF saveMode = "auto" THEN hasUnsavedChanges ELSE TRUE
  /\ changes' = changes + 1
  /\ lastChange' = [setting |-> setting, value |-> v]
  /\ lastOp' = "other"
  /\ escaped' = IF accepts THEN escaped ELSE escaped \cup {"conditionalSave"}
  /\ UNCHANGED <<pre, enables, inSession, resets, interference, announced,
                 documentDefined>>
  /\ UNCHANGED <<saveMode, storageHandler, mounted, isSaving, shouldApplyEffectsRef,
                 isInitialLoadRef, saving>>

\* A change handler over a storage that accepts the write.
ChangeSetting(setting, v, direct, announce, message) ==
  ChangeSettingStoring(TRUE, setting, v, direct, announce, message)

\* level === 'extra-wide' ? 'extra wide' : level
SpacingName(level) == IF level = "extra-wide" THEN "extra wide" ELSE level

levelLabels(level) ==
  CASE level = "default" -> "Default"
    [] level = "low" -> "Low Contrast"
    [] level = "high" -> "High Contrast"
    [] level = "dark" -> "Dark Mode"

EnabledName(checked) == IF checked THEN "enabled" ELSE "disabled"

handleTextSizeChange(size) ==
  ChangeSetting("textSize", size, World, TRUE, "Text size changed to " \o size)

\* handleTextSizeChange in auto mode over a storage whose setItem fails.
handleTextSizeChangeRejected(size) ==
  /\ saveMode = "auto"
  /\ ChangeSettingStoring(FALSE, "textSize", size, World, TRUE,
                          "Text size changed to " \o size)

handleLineHeightChange(level) ==
  ChangeSetting("lineHeight", level, World, TRUE, "Line height changed to " \o level)

handleLetterSpacingChange(level) ==
  ChangeSetting("letterSpacing", level, World, TRUE,
                "Letter spacing changed to " \o SpacingName(level))

handleWordSpacingChange(level) ==
  ChangeSetting("wordSpacing", level, World, TRUE,
                "Word spacing changed to " \o SpacingName(level))

handleContrastChange(level) ==
  ChangeSetting("contrast", level,
                When(saveMode = "auto", LAMBDA x : applyContrast(x, level), World),
                TRUE, "Contrast changed to " \o levelLabels(level))

handleSaturationChange(level) ==
  ChangeSetting("saturation", level, World, TRUE, "Saturation changed to " \o level)

\* stopSpeaking() when turning off, setSpeechSynthesis(checked), and in auto
\* mode the mode itself.
ScreenReaderDirect(w, checked, r) ==
  When(saveMode = "auto",
       LAMBDA x : IF checked THEN EnableFromPanel(x, r)
                             ELSE disableScreenReaderMode(x),
       [When(~checked, stopSpeaking, w) EXCEPT !.speechOn = checked])

handleScreenReaderChange(checked) ==
  /\ saveMode = "auto" => Room
  /\ \E r \in RandomSuffixes :
       ChangeSetting("screenReader", checked, ScreenReaderDirect(World, checked, r),
                     checked, MsgEnabled)

handleMonochromeChange(checked) ==
  ChangeSetting("monochrome", checked, World, TRUE,
                "Monochrome mode " \o EnabledName(checked))

handleHideImagesChange(checked) ==
  ChangeSetting("hideImages", checked,
                When(saveMode = "auto", LAMBDA x : applyHideImages(x, checked), World),
                TRUE, "Hide images " \o EnabledName(checked))

handleHighlightTitlesChange(checked) ==
  ChangeSetting("highlightTitles", checked,
                When(saveMode = "auto", LAMBDA x : applyHighlightTitles(x, checked),
                     World),
                TRUE, "Highlight titles " \o EnabledName(checked))

handleHighlightLinksChange(checked) ==
  ChangeSetting("highlightLinks", checked,
                When(saveMode = "auto", LAMBDA x : applyHighlightLinks(x, checked),
                     World),
                TRUE, "Highlight links " \o EnabledName(checked))

\* newFontFamily === 'dyslexia-friendly' ? 'dyslexia friendly' : newFontFamily
FontDisplayName(font) ==
  IF font = "dyslexia-friendly" THEN "dyslexia friendly" ELSE font

handleFontFamilyChange(newFontFamily) ==
  ChangeSetting("fontFamily", newFontFamily, World, TRUE,
                "Font family changed to " \o FontDisplayName(newFontFamily))

\* ------------------------------------------------------- the panel: Save
\* Variant: Save leaves the contrast as it is.
MutApplyAllButContrast(w, s) ==
  applyHighlightLinks(
    applyHighlightTitles(
      applyHideImages(
        applyFilters(
          applyWordSpacing(
            applyLetterSpacing(
              applyLineHeight(applyFontScale(applyFontFamily(w, s), s), s), s), s),
          s),
        s.hideImages),
      s.highlightTitles),
    s.highlightLinks)

\* The apply calls of handleSaveSettings, in source order.
ApplyAll(w, s) ==
  applyContrast(
    applyHighlightLinks(
      applyHighlightTitles(
        applyHideImages(
          applyFilters(
            applyWordSpacing(
              applyLetterSpacing(
                applyLineHeight(applyFontScale(applyFontFamily(w, s), s), s), s), s),
            s),
          s.hideImages),
        s.highlightTitles),
      s.highlightLinks),
    s.contrast)

\* setSpeechSynthesis(screenReader), then the mode is enabled or disabled.
ApplyScreenReader(w, s, r) ==
  IF s.screenReader
    THEN EnableFromPanel([w EXCEPT !.speechOn = TRUE], r)
    ELSE disableScreenReaderMode([w EXCEPT !.speechOn = FALSE])

SettingOfKey(key) == CHOOSE setting \in SettingNames : StorageKey(setting) = key

\* The batch of writes: every setting under its key.
SavedStorage(s) ==
  [key \in StorageKeys |-> StoredString(SettingOfKey(key), s[SettingOfKey(key)])]

\* The Save button's label is replaced by the spinner, and back: a mutation
\* below the body.
SaveButtonRendered(w) == [w EXCEPT !.records = TRUE]

\* handleSaveSettings up to its await: the effects are applied and the writes
\* issued.  The button is disabled unless there are unsaved changes.  ok tells
\* whether the storage accepts the writes (setItem throws otherwise).
SaveStart(ok) ==
  /\ mounted
  /\ saveMode = "manual"
  /\ hasUnsavedChanges
  /\ ~isSaving
  /\ Idle
  /\ Room
  /\ isSaving' = TRUE
  /\ \E r \in RandomSuffixes :
       \E w1 \in {ApplyAll(World, settings)} :
         Commit(DeliverMutations(World,
                                 SaveButtonRendered(ApplyScreenReader(w1, settings, r)),
                                 observing))
  /\ storage' = IF ok THEN SavedStorage(settings) @@ storage ELSE storage
  /\ saving' = [pending |-> TRUE, ok |-> ok, invoked |-> settings]
  /\ Observe("other")
  /\ UNCHANGED <<saveMode, storageHandler, mounted, settings, hasUnsavedChanges,
                 shouldApplyEffectsRef, isInitialLoadRef, observing, changes,
                 lastChange>>

\* Variant: the catch block clears the flag and calls onSave as the try block
\* does.
MutSaveOutcomeAlike(ok, unsaved) ==
  [unsaved |-> FALSE, onSave |-> TRUE,
   message |-> IF ok THEN "Settings saved"
               ELSE "Failed to save settings. Please try again."]

\* What handleSaveSettings does when Promise.all has settled: the rest of the
\* try block when every write succeeded, the catch block otherwise.  unsaved
\* is the flag at that time.
SaveOutcome(ok, unsaved) ==
  IF ok
    THEN [unsaved |-> FALSE, onSave |-> TRUE, message |-> "Settings saved"]
    ELSE [unsaved |-> unsaved, onSave |-> FALSE,
          message |-> "Failed to save settings. Please try again."]

\* handleSaveSettings after its await: the flag is cleared when the writes
\* succeeded, the catch block announces the failure otherwise; finally the
\* saving indicator is reset.  announceChange is the one of the render Save
\* was called from.
SaveSettle ==
  /\ saving.pending
  /\ hasUnsavedChanges' = SaveOutcome(saving.ok, hasUnsavedChanges).unsaved
  /\ isSaving' = FALSE
  /\ saving' = NoSave
  /\ Commit(DeliverMutations(
              World,
              SaveButtonRendered(
                announceChange(World, saving.invoked.screenReader,
                               SaveOutcome(saving.ok, hasUnsavedChanges).message)),
              observing))
  /\ Observe(IF SaveOutcome(saving.ok, hasUnsavedChanges).onSave
               THEN "onSave" ELSE "other")
  /\ UNCHANGED <<saveMode, storageHandler, mounted, settings, storage, shouldApplyEffectsRef,
                 isInitialLoadRef, observing, changes, lastChange>>

\* ------------------------------------------------------ the panel: Reset
\* The writes handleReset makes itself, in source order.
ResetDirect(w) ==
  applyContrast(
    applyHighlightLinks(
      applyHighlightTitles(
        applyHideImages(
          setProperty(
            setProperty(
              setProperty(
                setProperty(
                  setProperty(
                    setProperty(
                      setProperty(w, "--accessibility-font-family", "inherit"),
                      "body.fontFamily", "inherit"),
                    "--font-scale", "1"),
                  "--line-height-scale", "1.5"),
                "--letter-spacing-scale", "0"),
              "--word-spacing-scale", "0"),
            "filter", ""),
          FALSE),
        FALSE),
      FALSE),
    "low")

\* setSpeechSynthesis(false); if (isScreenReaderModeEnabled()) disable
ResetScreenReader(w) ==
  When(isScreenReaderModeEnabled(w), disableScreenReaderMode,
       [w EXCEPT !.speechOn = FALSE])

\* The render after the state was reset: the gated effects of what changed,
\* and the indicator dot leaves the Save button.
ResetRendered(w) ==
  GatedEffects(
    IF saveMode = "manual" /\ hasUnsavedChanges THEN [w EXCEPT !.records = TRUE] ELSE w,
    settings, DefaultSettings, shouldApplyEffectsRef \/ isInitialLoadRef)

\* Variant: the placement keys are left in storage.
MutClearedStorageButPlacement ==
  [key \in AllKeys |-> IF key \in PlacementKeys THEN storage[key] ELSE NoItem]

\* await Promise.all(removeFromStorage...): every key of the panel is removed
ClearedStorage == [key \in AllKeys |-> NoItem]

\* handleReset.  The removals are issued before the await, the render follows
\* the handler, and the announcement follows the await when no removal threw.
\* announceChange is the one of the render Reset was called from.
handleReset(ok) ==
  /\ mounted
  /\ Idle
  /\ resets < MaxResets
  /\ (bodyClass \/ (ok /\ settings.screenReader)) => Room
  /\ \E w1 \in {ResetRendered(ResetScreenReader(ResetDirect(World)))} :
       Commit(DeliverMutations(
                World,
                announceChange(
                  w1, ok /\ settings.screenReader,
                  "All accessibility settings have been reset to default values"),
                observing /\ ~settings.hideImages))
  /\ settings' = DefaultSettings
  /\ hasUnsavedChanges' = FALSE
  /\ observing' = ObserverAfterRender(settings, DefaultSettings,
                                      shouldApplyEffectsRef \/ isInitialLoadRef,
                                      observing)
  /\ storage' = IF ok THEN ClearedStorage ELSE storage
  /\ resets' = resets + 1
  /\ lastOp' = IF ok THEN "reset" ELSE "resetFailed"
  /\ escaped' = IF ok THEN escaped ELSE escaped \cup {"handleReset"}
  /\ UNCHANGED <<pre, enables, inSession, interference, announced,
                 documentDefined>>
  /\ UNCHANGED <<saveMode, storageHandler, mounted, isSaving, shouldApplyEffectsRef,
                 isInitialLoadRef, saving, changes, lastChange>>

NextSR ==
  \/ \E config \in Configs : EnableScreenReaderMode(config)
  \/ DisableScreenReaderMode
  \/ \E sp \in BOOLEAN : InitializeAnnouncer(FALSE, sp)
  \/ \E b \in BOOLEAN : SetSpeechSynthesis(b)
  \/ AnimationFrame
  \/ \E i \in 1..Len(timers) : ClearRegionTimer(i)
  \/ UtteranceEnd

SpecSR == InitSR /\ [][NextSR]_vars

\* ------------------------------------------------ the panel: specifications
\* The string the specification's example stores for a setting it is no value of.
Garbage == "huge"

\* What storage can hold for a setting: what the panel writes, or garbage.
StoredStrings(setting) ==
  {StoredString(setting, v) : v \in Domain(setting)} \cup {Garbage}

\* Storage that holds one key.
SingleKeyStorages ==
  UNION {{[EmptyStorage EXCEPT ![StorageKey(setting)] = str] :
            str \in StoredStrings(setting)} : setting \in SettingNames}

\* Storage as a Save left it: every key holds a value, none is the default.
SavedSettings ==
  [textSize |-> "large", lineHeight |-> "relaxed", letterSpacing |-> "wide",
   wordSpacing |-> "extra-wide", contrast |-> "high", saturation |-> "low",
   screenReader |-> TRUE, monochrome |-> TRUE, hideImages |-> TRUE,
   highlightTitles |-> TRUE, highlightLinks |-> TRUE, fontFamily |-> "serif"]

PanelFixture == CHOOSE a \in Fixtures : a["main"]["id"] = Absent

PanelBase ==
  /\ attrs = PanelFixture
  /\ EngineInit
  /\ ObserverInit
  /\ saveMode \in {"auto", "manual"}
  /\ storageHandler = "webStorage"
  /\ imageStyle = HostImageStyle
  /\ PanelInit

\* Loading: the panel mounts over any stored key, and its timers run.
InitLoad ==
  /\ PanelBase
  /\ storage \in SingleKeyStorages
                  \cup {EmptyStorage, SavedStorage(SavedSettings) @@ PlacementStored}

NextLoad ==
  \/ Mount
  \/ \E i \in 1..Len(timers) : ApplyHideImagesTimer(i)
  \/ \E i \in 1..Len(timers) : ApplyHighlightTitlesTimer(i)
  \/ \E i \in 1..Len(timers) : ApplyHighlightLinksTimer(i)
  \/ \E i \in 1..Len(timers) : ApplyContrastTimer(i)
  \/ \E i \in 1..Len(timers) : EnableScreenReaderTimer(i)
  \/ \E i \in 1..Len(timers) : EndInitialLoad(i)
  \/ \E i \in 1..Len(timers) : ClearRegionTimer(i)
  \/ AnimationFrame
  \/ UtteranceEnd

SpecLoad == InitLoad /\ [][NextLoad]_vars

\* Using the panel: it mounts over an empty storage or over what a Save
\* left, and the user changes settings and saves.
InitPanel ==
  /\ PanelBase
  /\ storage \in {EmptyStorage, SavedStorage(SavedSettings) @@ PlacementStored}

NextPanel ==
  \/ NextLoad
  \/ \E i \in 1..Len(timers) : ClearStatusTimer(i)
  \/ \E v \in TextSizes : handleTextSizeChange(v)
  \/ \E v \in LineHeights : handleLineHeightChange(v)
  \/ \E v \in LetterSpacings : handleLetterSpacingChange(v)
  \/ \E v \in WordSpacings : handleWordSpacingChange(v)
  \/ \E v \in ContrastLevels : handleContrastChange(v)
  \/ \E v \in SaturationLevels : handleSaturationChange(v)
  \/ \E v \in FontFamilies : handleFontFamilyChange(v)
  \/ \E v \in BOOLEAN : handleScreenReaderChange(v)
  \/ \E v \in BOOLEAN : handleMonochromeChange(v)
  \/ \E v \in BOOLEAN : handleHideImagesChange(v)
  \/ \E v \in BOOLEAN : handleHighlightTitlesChange(v)
  \/ \E v \in BOOLEAN : handleHighlightLinksChange(v)
  \/ \E ok \in BOOLEAN : SaveStart(ok)
  \/ SaveSettle

SpecPanel == InitPanel /\ [][NextPanel]_vars

\* Resetting: the panel mounts, the user resets, and changes the settings
\* whose defaults Reset writes itself (contrast, line height) and the toggle
\* that works on the document's nodes; the screen-reader mode is on when it
\* was stored.
NextReset ==
  \/ NextLoad
  \/ \E i \in 1..Len(timers) : ClearStatusTimer(i)
  \/ \E v \in ContrastLevels : handleContrastChange(v)
  \/ \E v \in LineHeights : handleLineHeightChange(v)
  \/ \E v \in BOOLEAN : handleHideImagesChange(v)
  \/ \E ok \in BOOLEAN : handleReset(ok)

SpecReset == InitPanel /\ [][NextReset]_vars

\* A storage that fails: a read of the load, the write of a change in auto
\* mode, or the removals of Reset throw or reject.
NextFaults ==
  \/ NextLoad
  \/ \E n \in 1..Len(ReadOrder) : MountRejected(n)
  \/ \E i \in 1..Len(timers) : ClearStatusTimer(i)
  \/ \E v \in TextSizes : handleTextSizeChange(v)
  \/ \E v \in TextSizes : handleTextSizeChangeRejected(v)
  \/ \E ok \in BOOLEAN : handleReset(ok)

SpecFaults == InitPanel /\ [][NextFaults]_vars

\* Loading over a storage whose reads may fail, the screen-reader setting
\* not stored as on.
InitLoadFaults ==
  /\ PanelBase
  /\ storage \in {stor \in SingleKeyStorages
                            \cup {EmptyStorage,
                                  SavedStorage([SavedSettings
                                                  EXCEPT !.screenReader = FALSE])
                                    @@ PlacementStored} :
                     getItem(stor, "screenReader") # "true"}

NextLoadFaults ==
  \/ Mount
  \/ \E n \in 1..Len(ReadOrder) : MountRejected(n)
  \/ \E i \in 1..Len(timers) : ApplyHideImagesTimer(i)
  \/ \E i \in 1..Len(timers) : ApplyHighlightTitlesTimer(i)
  \/ \E i \in 1..Len(timers) : ApplyHighlightLinksTimer(i)
  \/ \E i \in 1..Len(timers) : ApplyContrastTimer(i)
  \/ \E i \in 1..Len(timers) : EndInitialLoad(i)

SpecLoadFaults == InitLoadFaults /\ [][NextLoadFaults]_vars

\* The browser runs every timer that is due.
LoadTimerFires ==
  \E i \in 1..Len(timers) :
    \/ ApplyHideImagesTimer(i)
    \/ ApplyHighlightTitlesTimer(i)
    \/ ApplyHighlightLinksTimer(i)
    \/ ApplyContrastTimer(i)
    \/ EndInitialLoad(i)

LiveLoad == SpecLoadFaults /\ WF_vars(LoadTimerFires)

\* The grace window in manual mode: the panel mounts over an empty storage
\* or over what a Save left, and the user changes settings and saves once the
\* window has closed.
InitGrace == InitPanel /\ saveMode = "manual"

NextGrace ==
  \/ NextLoad
  \/ \E i \in 1..Len(timers) : ClearStatusTimer(i)
  \/ ~isInitialLoadRef /\ \E v \in TextSizes : handleTextSizeChange(v)
  \/ ~isInitialLoadRef /\ \E v \in LineHeights : handleLineHeightChange(v)
  \/ ~isInitialLoadRef /\ \E v \in LetterSpacings : handleLetterSpacingChange(v)
  \/ ~isInitialLoadRef /\ \E v \in WordSpacings : handleWordSpacingChange(v)
  \/ ~isInitialLoadRef /\ \E v \in ContrastLevels : handleContrastChange(v)
  \/ ~isInitialLoadRef /\ \E v \in SaturationLevels : handleSaturationChange(v)
  \/ ~isInitialLoadRef /\ \E v \in FontFamilies : handleFontFamilyChange(v)
  \/ ~isInitialLoadRef /\ \E v \in BOOLEAN : handleScreenReaderChange(v)
  \/ ~isInitialLoadRef /\ \E v \in BOOLEAN : handleMonochromeChange(v)
  \/ ~isInitialLoadRef /\ \E v \in BOOLEAN : handleHideImagesChange(v)
  \/ ~isInitialLoadRef /\ \E v \in BOOLEAN : handleHighlightTitlesChange(v)
  \/ ~isInitialLoadRef /\ \E v \in BOOLEAN : handleHighlightLinksChange(v)
  \/ SaveStart(TRUE)
  \/ SaveSettle

SpecGrace == InitGrace /\ [][NextGrace]_vars

\* Manual mode over an asynchronous storage handler: the writes of a Save
\* settle in a later task, and the user goes on changing settings in
\* between.  The handler answers the reads of the load and the removals of
\* Reset before any other task runs.
InitAsync ==
  /\ attrs = PanelFixture
  /\ EngineInit
  /\ ObserverInit
  /\ saveMode = "manual"
  /\ storageHandler = "async"
  /\ imageStyle = HostImageStyle
  /\ PanelInit
  /\ storage \in {EmptyStorage, SavedStorage(SavedSettings) @@ PlacementStored}

NextAsync ==
  \/ NextLoad
  \/ \E i \in 1..Len(timers) : ClearStatusTimer(i)
  \/ \E v \in TextSizes : handleTextSizeChange(v)
  \/ \E v \in BOOLEAN : handleHideImagesChange(v)
  \/ \E ok \in BOOLEAN : SaveStart(ok)
  \/ SaveSettle
  \/ handleReset(TRUE)

SpecAsync == InitAsync /\ [][NextAsync]_vars

\* ------------------------------------------- the engine outside a browser
\* The exported functions that claim to do nothing without a document.
EntryPoints ==
  {"enableScreenReaderMode", "disableScreenReaderMode", "initializeAnnouncer",
   "announceToScreenReader", "isScreenReaderModeEnabled", "enableFocusReading",
   "disableFocusReading", "readElement", "readMainContent", "stopSpeaking",
   "detectBrowser", "detectLikelyScreenReader"}

Returned(w) == [w |-> w, threw |-> FALSE]

\* document.<member> where document is not defined: a ReferenceError
Threw(w) == [w |-> w, threw |-> TRUE]

\* An exported function run where document, window and navigator are not
\* defined: the module state it leaves and whether it threw.
\*   enableScreenReaderMode, disableScreenReaderMode, initializeAnnouncer,
\*   announceToScreenReader, isScreenReaderModeEnabled return at their
\*   typeof document check; detectBrowser, detectLikelyScreenReader and
\*   stopSpeaking at their typeof window check; readElement at
\*   !useSpeechSynthesis.  With speech synthesis on, readElement builds the
\*   announcement of the object it is given: getAccessibleName returns the
\*   aria-label of an object that has one and no aria-labelledby (labelled),
\*   and speakMessage returns at its typeof window check; for any other
\*   object it evaluates document.getElementById or instanceof
\*   HTMLInputElement.
\*   enableFocusReading sets the flag and the handler and then calls
\*   document.addEventListener; disableFocusReading clears the flag and then
\*   calls document.removeEventListener; readMainContent calls
\*   document.querySelector first.
WithoutDocument(w, name, labelled) ==
  CASE name = "enableFocusReading" ->
         IF w.focusOn THEN Returned(w) ELSE Threw([w EXCEPT !.focusOn = TRUE])
    [] name = "disableFocusReading" ->
         IF ~w.focusOn THEN Returned(w) ELSE Threw([w EXCEPT !.focusOn = FALSE])
    [] name = "readMainContent" -> Threw(w)
    [] name = "readElement" ->
         IF ~w.speechOn \/ labelled THEN Returned(w) ELSE Threw(w)
    [] OTHER -> Returned(w)

Outcome(name, threw) == name \o (IF threw THEN ":threw" ELSE ":returned")

\* A call of an exported function from code that runs outside a browser.
CallWithoutDocument(name, labelled) ==
  /\ ~documentDefined
  /\ Commit(WithoutDocument(World, name, labelled).w)
  /\ Observe(Outcome(name, WithoutDocument(World, name, labelled).threw))
  /\ UNCHANGED panelVars

\* setSpeechSynthesis and setAnnouncerDebugMode touch no document.
InitOutside ==
  /\ documentDefined = FALSE
  /\ attrs = PanelFixture
  /\ EngineInit
  /\ ObserverStart
  /\ saveMode = "auto"
  /\ storageHandler = "webStorage"
  /\ storage = EmptyStorage
  /\ imageStyle = HostImageStyle
  /\ PanelInit

NextOutside ==
  \/ \E name \in EntryPoints, labelled \in BOOLEAN :
       CallWithoutDocument(name, labelled)
  \/ \E b \in BOOLEAN : SetSpeechSynthesis(b)
  \/ \E b \in BOOLEAN : SetAnnouncerDebugMode(b)

SpecOutside == InitOutside /\ [][NextOutside]_vars

\* -------------------------------------- the host's images and the unmount
\* The host page removes an image from the document: a child-list mutation
\* below the body, which a connected observer answers.
HostRemovesImage(img) ==
  /\ img \in attached
  /\ interference < MaxInterference
  /\ Idle
  /\ Commit(DeliverMutations(World,
                             [World EXCEPT !.attached = @ \ {img}, !.records = TRUE],
                             observing))
  /\ interference' = interference + 1
  /\ lastOp' = "host"
  /\ UNCHANGED <<pre, enables, inSession, resets, announced, escaped, documentDefined>>
  /\ UNCHANGED panelVars

\* The host page inserts an image that was not in the document: a child-list
\* mutation below the body, which a connected observer answers.
HostInsertsImage(img) ==
  /\ img \notin attached
  /\ interference < MaxInterference
  /\ Idle
  /\ Commit(DeliverMutations(World,
                             [World EXCEPT !.attached = @ \cup {img}, !.records = TRUE],
                             observing))
  /\ interference' = interference + 1
  /\ lastOp' = "hostImage"
  /\ UNCHANGED <<pre, enables, inSession, resets, announced, escaped, documentDefined>>
  /\ UNCHANGED panelVars

\* The host page inserts a node that is no image: a child-list mutation
\* below the body.
HostAddsNode ==
  /\ Idle
  /\ Commit(DeliverMutations(World, [World EXCEPT !.records = TRUE], observing))
  /\ Observe("hostNode")
  /\ UNCHANGED panelVars

\* The host page marks an image as decorative: an attribute mutation, which
\* the observer does not watch.
HostMarksDecorative(img) ==
  /\ img \in attached
  /\ attrs[img]["aria-hidden"] # "true"
  /\ interference < MaxInterference
  /\ Idle
  /\ Commit([World EXCEPT !.attrs[img]["aria-hidden"] = "true"])
  /\ interference' = interference + 1
  /\ lastOp' = "host"
  /\ UNCHANGED <<pre, enables, inSession, resets, announced, escaped, documentDefined>>
  /\ UNCHANGED panelVars

\* Timers whose callbacks close over the mounted component.
PanelTimerKinds ==
  {"applyHideImages", "applyHighlightTitles", "applyHighlightLinks", "applyContrast",
   "enableScreenReaderMode", "endInitialLoad", "clearStatus"}

\* The unmount cleanups: they disconnect the observer and disable the mode
\* when it is on; the component's state and refs are dropped with it, and
\* the next mount starts from their initial values.  What the panel did to
\* the document stays, and so do the timers it started.
UnmountCleanup ==
  /\ mounted
  /\ Idle
  /\ interference < MaxInterference
  /\ bodyClass => Room
  /\ \E w1 \in {When(isScreenReaderModeEnabled(World), disableScreenReaderMode, World)} :
       Commit([w1 EXCEPT !.status = "", !.phRef = {}])
  /\ mounted' = FALSE
  /\ settings' = DefaultSettings
  /\ hasUnsavedChanges' = FALSE
  /\ isSaving' = FALSE
  /\ shouldApplyEffectsRef' = (saveMode = "auto")
  /\ isInitialLoadRef' = TRUE
  /\ observing' = FALSE
  /\ saving' = NoSave
  /\ lastChange' = NoChange
  /\ interference' = interference + 1
  /\ lastOp' = "unmount"
  /\ UNCHANGED <<pre, enables, inSession, resets, announced, escaped, documentDefined>>
  /\ UNCHANGED <<saveMode, storageHandler, storage, changes>>

\* The panel is unmounted once its own timers have fired.
Unmount ==
  /\ \A i \in 1..Len(timers) : timers[i].kind \notin PanelTimerKinds
  /\ UnmountCleanup

\* Hiding images: the panel mounts over a storage that is empty or holds the
\* hide-images key, over an image without an alt attribute or with an empty
\* one; the user toggles hide-images and saves, while the host page inserts
\* nodes, removes images or marks them decorative, and the panel is unmounted
\* and mounted again.
HideImagesStored == [EmptyStorage EXCEPT ![StorageKey("hideImages")] = "true"]

InitImages ==
  /\ attrs \in {[PanelFixture EXCEPT !["img"]["alt"] = alt] : alt \in {Absent, ""}}
  /\ EngineInit
  /\ ObserverInit
  /\ saveMode \in {"auto", "manual"}
  /\ storageHandler = "webStorage"
  /\ imageStyle = HostImageStyle
  /\ PanelInit
  /\ storage \in {EmptyStorage, HideImagesStored}

NextImages ==
  \/ Mount
  \/ \E i \in 1..Len(timers) : ApplyHideImagesTimer(i)
  \/ \E i \in 1..Len(timers) : EndInitialLoad(i)
  \/ \E v \in BOOLEAN : handleHideImagesChange(v)
  \/ \E ok \in BOOLEAN : SaveStart(ok)
  \/ SaveSettle
  \/ HostAddsNode
  \/ \E img \in ImageSet : HostRemovesImage(img)
  \/ \E img \in ImageSet : HostMarksDecorative(img)
  \/ Unmount

SpecImages == InitImages /\ [][NextImages]_vars

\* Images that arrive later: the host page takes an image out of the
\* document and inserts it, or another one, afterwards, while the user
\* toggles hide-images and saves.
NextInsert ==
  \/ Mount
  \/ \E i \in 1..Len(timers) : ApplyHideImagesTimer(i)
  \/ \E i \in 1..Len(timers) : EndInitialLoad(i)
  \/ \E v \in BOOLEAN : handleHideImagesChange(v)
  \/ SaveStart(TRUE)
  \/ SaveSettle
  \/ \E img \in ImageSet : HostRemovesImage(img)
  \/ \E img \in ImageSet : HostInsertsImage(img)

SpecInsert == InitImages /\ [][NextInsert]_vars

\* The browser runs a timer that is due and the continuation of a Save; the
\* user and the host page act when they please.
LiveInsert ==
  /\ SpecInsert
  /\ WF_vars(\E i \in 1..Len(timers) : ApplyHideImagesTimer(i))
  /\ WF_vars(\E i \in 1..Len(timers) : EndInitialLoad(i))
  /\ WF_vars(SaveSettle)

\* ------------------------------------------------------- the announcer alone
\* The messages announced.
Messages == {"Saved", "Loading"}

\* Nothing of an earlier announcement is outstanding: no callback waits for
\* a frame and no region waits to be cleared.
Quiet == rafQueue = <<>> /\ AnnouncementTimers = <<>>

\* announceToScreenReader called by the host.  An announcement made while
\* nothing is outstanding is followed; a call made while the followed one
\* is on its way ends the following.
Announce(message, priority) ==
  /\ Len(rafQueue) + Len(AnnouncementTimers) < MaxAnnouncements
  /\ Len(speech) < MaxUtterances
  /\ Commit(announceToScreenReader(World, message, priority))
  /\ announced' =
       IF message = "" THEN announced
       ELSE IF Quiet
         THEN [message |-> message, priority |-> priority, phase |-> "called",
               other |-> regionText[CHOOSE r \in Regions : r # priority]]
         ELSE [announced EXCEPT !.phase = "overlapped"]
  /\ lastOp' = IF message = "" THEN "announce:"
               ELSE IF priority = "assertive" THEN "announce:assertive"
               ELSE "announce:polite"
  /\ UNCHANGED <<pre, enables, inSession, resets, interference, escaped, documentDefined>>
  /\ UNCHANGED panelVars

NextAnnounce ==
  \/ \E message \in Messages \cup {""}, priority \in Regions : Announce(message, priority)
  \/ \E enabled \in BOOLEAN : SetSpeechSynthesis(enabled)
  \/ AnimationFrame
  \/ \E i \in 1..Len(timers) : ClearRegionTimer(i)
  \/ UtteranceEnd

SpecAnnounce == InitSR /\ [][NextAnnounce]_vars

\* The announcer next to the mode: the host initialises the announcer,
\* announces, and enables and disables the mode, in any order; speech
\* synthesis stays off.
NextAnnouncer ==
  \/ InitializeAnnouncer(FALSE, FALSE)
  \/ \E message \in Messages \cup {""}, priority \in Regions : Announce(message, priority)
  \/ EnableScreenReaderMode(PanelConfig)
  \/ DisableScreenReaderMode
  \/ AnimationFrame
  \/ \E i \in 1..Len(timers) : ClearRegionTimer(i)

SpecAnnouncer == InitSR /\ [][NextAnnouncer]_vars

\* ------------------------------------------------ the injected style sheets
\* The panel's style functions called on their own, in any order, between
\* enables and disables of the screen-reader mode.
ApplyContrast(level) ==
  /\ Commit(applyContrast(World, level))
  /\ Observe("applyContrast:" \o level)
  /\ UNCHANGED panelVars

ApplyHighlightTitles(enabled) ==
  /\ Commit(applyHighlightTitles(World, enabled))
  /\ Observe(IF enabled THEN "applyHighlightTitles:true" ELSE "applyHighlightTitles:false")
  /\ UNCHANGED panelVars

ApplyHighlightLinks(enabled) ==
  /\ Commit(applyHighlightLinks(World, enabled))
  /\ Observe(IF enabled THEN "applyHighlightLinks:true" ELSE "applyHighlightLinks:false")
  /\ UNCHANGED panelVars

NextStyles ==
  \/ \E level \in ContrastLevels : ApplyContrast(level)
  \/ \E enabled \in BOOLEAN : ApplyHighlightTitles(enabled)
  \/ \E enabled \in BOOLEAN : ApplyHighlightLinks(enabled)
  \/ \E config \in {<<>>, PanelConfig} : EnableScreenReaderMode(config)
  \/ DisableScreenReaderMode
  \/ AnimationFrame
  \/ \E i \in 1..Len(timers) : ClearRegionTimer(i)

SpecStyles == InitSR /\ [][NextStyles]_vars

\* ---------------------------------------------- enhancement engine: claims
SnapshotNow == Snapshot(World)

InjectedIds ==
  {"skip-links-container", "skip-link-styles", "screen-reader-focus-styles",
   "screen-reader-live-region"}

NodesWithId(id) == {n \in nodes : n.id = id}

\* C1: enableScreenReaderMode() followed by disableScreenReaderMode() (one
\* enable, then the disable, with only the engine's own callbacks between)
\* restores the document: every attribute of every pre-existing element has
\* the value (or absence) it had before the enable call, and the document
\* holds as many elements as before it.
C1_EnableDisableRestores ==
  [][(inSession /\ enables = 1 /\ lastOp' = "disable")
       => SnapshotNow' = pre]_vars

\* C2: after n >= 1 consecutive enables and one disable, every attribute of
\* the document equals its value (or absence) from before the first enable of
\* the session, the snapshot map having recorded each pair once.
C2_SessionRestoresAttributes ==
  [][(inSession /\ lastOp' = "disable") => attrs' = pre.attrs]_vars

C4_DisableWhenDisabledIsNoOp ==
  [][(~bodyClass /\ lastOp' = "disable") => UNCHANGED engineVars]_vars

\* ------------------------------------------------------- the panel: claims
\* The plain string of a value: the value itself, "true"/"false" for a toggle.
PlainString(setting, v) ==
  IF setting \in BooleanSettings THEN (IF v THEN "true" ELSE "false") ELSE v

\* Every key of stor holds the plain string of the setting's value in s.
AllStored(stor, s) ==
  \A setting \in SettingNames :
    stor[StorageKey(setting)] = PlainString(setting, s[setting])

\* The document w shows the effect of every setting of s.
EffectsApplied(w, s) ==
  /\ w.style["--accessibility-font-family"] = getFontFamilyValue(s.fontFamily)
  /\ w.style["body.fontFamily"] = getFontFamilyValue(s.fontFamily)
  /\ w.style["--font-scale"] = getFontScaleValue(s.textSize)
  /\ w.style["--line-height-scale"] = getLineHeightValue(s.lineHeight)
  /\ w.style["--letter-spacing-scale"] = getLetterSpacingValue(s.letterSpacing)
  /\ w.style["--word-spacing-scale"] = getWordSpacingValue(s.wordSpacing)
  /\ w.style["filter"] = FilterValue(s.monochrome, s.saturation)
  /\ w.dataContrast = (IF s.contrast = "default" THEN Absent ELSE s.contrast)
  /\ w.sheets["accessibility-contrast-style"] =
       (IF s.contrast = "default" THEN <<>> ELSE <<ContrastRules(s.contrast)>>)
  /\ (w.sheets["accessibility-highlight-titles-style"] # <<>>) = s.highlightTitles
  /\ (w.sheets["accessibility-highlight-links-style"] # <<>>) = s.highlightLinks
  /\ w.dataset = (IF s.hideImages THEN ImageSet ELSE {})
  /\ \A img \in ImageSet : Len(w.placeholders[img]) = (IF s.hideImages THEN 1 ELSE 0)
  /\ w.bodyClass = s.screenReader

\* What the settings show of themselves in the document.
ManagedDocument ==
  <<rootStyle, dataContrast, styleSheets, imageDataset, placeholders, attrs,
    bodyClass, bodyDataSR, createdElements, liveRegionElement>>

\* The step is handleSaveSettings up to its await.
SaveRuns == ~isSaving /\ isSaving'

\* The step is a change handler.
ChangeRuns == changes' = changes + 1

\* C5: in manual save mode, once the initial-load grace window has ended,
\* no CSS variable, filter, managed style element, data-contrast attribute,
\* image placeholder or screen-reader enhancement is added, changed or removed
\* by the setting changes: the document changes only when Save runs.
C5_ManualChangesLeaveDocument ==
  [][(saveMode = "manual" /\ mounted /\ ~isInitialLoadRef /\ ~SaveRuns)
       => ManagedDocument' = ManagedDocument]_vars

\* C6: in manual save mode every setting change sets the unsaved-changes flag
\* and keeps the changed value in memory, and no step but Save changes the
\* storage, however many settings are changed.
C6_ManualChangesNotStored ==
  [][saveMode = "manual" =>
       /\ ChangeRuns =>
            /\ hasUnsavedChanges'
            /\ settings' = [settings EXCEPT ![lastChange'.setting] = lastChange'.value]
            /\ settings' # settings
       /\ ~SaveRuns => storage' = storage]_vars

\* C6 witness: two settings changed in manual mode, nothing saved, and the
\* storage still empty.
C6_Witness ==
  /\ saveMode = "manual" /\ changes = 2 /\ hasUnsavedChanges
  /\ ~isSaving /\ ~saving.pending
  /\ storage = EmptyStorage
  /\ Cardinality({setting \in SettingNames :
                    settings[setting] # DefaultSettings[setting]}) = 2

\* C7: a Save whose writes succeed applies the effect of every in-memory
\* setting and stores every value, the unsaved-changes flag still set; the flag
\* is cleared only afterwards, when the writes have settled, and the applied
\* effects and the stored values then equal the settings Save was invoked with.
C7_SaveAppliesStoresThenClears ==
  [][/\ (SaveRuns /\ saving'.ok) =>
          /\ EffectsApplied(World', settings)
          /\ AllStored(storage', settings)
          /\ hasUnsavedChanges'
     /\ (hasUnsavedChanges /\ ~hasUnsavedChanges') =>
          /\ saving.pending /\ saving.ok
          /\ EffectsApplied(World, saving.invoked)
          /\ AllStored(storage, saving.invoked)
          /\ EffectsApplied(World', saving.invoked)
          /\ AllStored(storage', saving.invoked)
          /\ settings' = saving.invoked]_vars

\* C7 witness: two settings were changed after the grace window, Save ran and
\* its writes settled.
C7_Witness ==
  /\ saveMode = "manual" /\ changes = 2 /\ ~hasUnsavedChanges
  /\ ~isSaving /\ ~saving.pending /\ ~isInitialLoadRef
  /\ settings.contrast = "dark" /\ settings.hideImages
  /\ AllStored(storage, settings)
  /\ EffectsApplied(World, settings)

\* C8: in auto save mode a change handler for a setting with a new value
\* leaves, under that setting's key, the plain string of the value, and no
\* other key is touched.
C8_AutoChangeStoredAtOnce ==
  [][(saveMode = "auto" /\ ChangeRuns) =>
       /\ settings'[lastChange'.setting] = lastChange'.value
       /\ storage' = [storage EXCEPT ![StorageKey(lastChange'.setting)] =
                        PlainString(lastChange'.setting, lastChange'.value)]
       /\ storage' # storage]_vars

\* C8 witness: a toggle and an enumerated setting were changed in auto mode and
\* the storage holds their plain strings.
C8_Witness ==
  /\ saveMode = "auto" /\ changes = 2
  /\ settings.monochrome /\ storage["accessibility-monochrome"] = "true"
  /\ settings.textSize = "large" /\ storage["accessibility-text-size"] = "large"
  /\ lastChange.setting = "textSize"

\* The strings the panel writes for the values of a setting.
PlainStrings(setting) == {PlainString(setting, v) : v \in Domain(setting)}

\* The values of a setting whose plain string the storage holds under its key.
StoredValues(setting) ==
  {v \in Domain(setting) : getItem(storage, setting) = PlainString(setting, v)}

\* C9: when the panel mounts over storage that holds, for a setting, the
\* string the panel writes for a value v of its domain, the in-memory setting
\* equals v once mounted, and once loading has completed the document shows
\* the effect of every in-memory setting, in auto and in manual save mode.
C9_PersistLoadRoundTrip ==
  mounted =>
    /\ \A setting \in SettingNames :
         \A v \in StoredValues(setting) : settings[setting] = v
    /\ ~isInitialLoadRef => EffectsApplied(World, settings)

\* C9 witness: manual mode, every key held a non-default value, loading has
\* completed, and the values are in memory and applied.
C9_Witness ==
  /\ saveMode = "manual" /\ mounted /\ ~isInitialLoadRef
  /\ AllStored(storage, SavedSettings)
  /\ settings = SavedSettings
  /\ EffectsApplied(World, SavedSettings)

\* C10: once loaded, every in-memory setting is a member of its domain, and a
\* setting whose key holds no string of its domain has its default value.
C10_GarbageRejectedAtLoad ==
  mounted =>
    \A setting \in SettingNames :
      /\ settings[setting] \in Domain(setting)
      /\ getItem(storage, setting) \notin PlainStrings(setting)
           => settings[setting] = DefaultSettings[setting]

\* The step is handleReset.
ResetRuns == resets' = resets + 1

\* C11: after handleReset and the render that follows it, in either save
\* mode and from any prior settings, every in-memory setting is its default
\* and the document shows the effects of the defaults: no contrast stylesheet
\* and no data-contrast attribute, every scale at its 'default' mapping, an
\* empty filter, no placeholders, no highlight stylesheets, the mode off.
C11_ResetRestoresDefaults ==
  [][ResetRuns =>
       /\ settings' = DefaultSettings
       /\ EffectsApplied(World', DefaultSettings)]_vars

\* The keys the panel keeps in storage.
PanelKeyNames ==
  {"accessibility-text-size", "accessibility-line-height",
   "accessibility-letter-spacing", "accessibility-word-spacing",
   "accessibility-contrast", "accessibility-saturation",
   "accessibility-monochrome", "accessibility-hide-images",
   "accessibility-highlight-titles", "accessibility-highlight-links",
   "accessibility-font-family", "accessibility-screen-reader",
   "accessibility-position", "accessibility-theme"}

\* C12: when handleReset has completed and the storage took its removals,
\* none of the panel's keys (the twelve settings, position, theme) is present
\* in storage and the unsaved-changes flag is false.
C12_ResetClearsStorage ==
  [][(ResetRuns /\ lastOp' = "reset") =>
       /\ DOMAIN storage' = PanelKeyNames
       /\ \A key \in PanelKeyNames : storage'[key] = NoItem
       /\ ~hasUnsavedChanges']_vars

\* C12 witness: manual mode over a storage that held every key (the stored
\* screen-reader mode was on, and Reset switched it off); two settings were
\* changed and left unsaved, then Reset ran.
C12_Witness ==
  /\ lastOp = "reset" /\ saveMode = "manual" /\ changes = 2
  /\ ~hasUnsavedChanges
  /\ \A key \in PanelKeyNames : storage[key] = NoItem
  /\ \E i \in 1..Len(rafQueue) : rafQueue[i].message = MsgDisabled

\* ------------------------------------------------------ hide images: claims
\* A hide-images toggle in auto mode, where the handler calls applyHideImages.
HideImagesToggled ==
  /\ saveMode = "auto"
  /\ ChangeRuns
  /\ lastChange'.setting = "hideImages"

\* The text a placeholder of the image shows.
PlaceholderText(img) ==
  IF attrs[img]["alt"] = Absent \/ attrs[img]["alt"] = "" THEN "Image" ELSE attrs[img]["alt"]

\* C13: while the host page leaves its images alone and the panel stays
\* mounted, enabling hide-images leaves every image with display none and
\* one placeholder after it that shows the image's alt text, or "Image"
\* when that is empty; disabling leaves every image with the inline display
\* it had and without a placeholder; so enabling again after a cycle leaves
\* one placeholder per image.
C13_HideImagesRoundTrip ==
  [][(HideImagesToggled /\ interference' = 0) =>
       \A img \in ImageSet :
         IF lastChange'.value
           THEN /\ imageStyle'[img] = "none"
                /\ placeholders'[img] = <<PlaceholderText(img)>>
           ELSE /\ imageStyle'[img] = HostImageStyle[img]
                /\ placeholders'[img] = <<>>]_vars

\* C13 witness: hide-images was loaded as on and applied, and was switched
\* off and on again; every image is hidden behind one placeholder.
C13_Witness ==
  /\ saveMode = "auto" /\ interference = 0 /\ changes = 2
  /\ lastChange = [setting |-> "hideImages", value |-> TRUE]
  /\ imageDataset = ImageSet
  /\ placeholders = [img \in ImageSet |-> <<PlaceholderText(img)>>]
  /\ originalDisplay["logo"] = "block"
  /\ attrs["img"]["alt"] = ""
  /\ \A i \in 1..Len(timers) : timers[i].kind # "applyHideImages"

imageVars == <<imageDataset, originalDisplay, imageStyle, placeholders, imagePlaceholdersRef>>

\* C14: while only applyHideImages and the observer's re-runs have worked on
\* the images, an image is a key of the placeholder map exactly when it
\* carries the saved-display marker, and every image with the marker has
\* exactly one placeholder; a re-run over images that are all processed, and
\* a disable when no image is hidden, change nothing about the images.
C14_PlaceholderOwnership ==
  /\ [](interference = 0 =>
          /\ imagePlaceholdersRef = imageDataset
          /\ \A img \in imageDataset : Len(placeholders[img]) = 1
          /\ \A img \in ImageSet \ imageDataset : placeholders[img] = <<>>)
  /\ [][((lastOp' = "hostNode" /\ imageDataset = ImageSet)
           \/ (HideImagesToggled /\ ~lastChange'.value /\ imageDataset = {}))
         => UNCHANGED imageVars]_vars

\* C14 witness: the observer re-ran applyHideImages(true) over images that
\* were all hidden already.
C14_Witness ==
  /\ lastOp = "hostNode" /\ observing /\ interference = 0
  /\ imageDataset = ImageSet /\ imagePlaceholdersRef = ImageSet
  /\ \A img \in ImageSet : Len(placeholders[img]) = 1
  /\ \A i \in 1..Len(timers) : timers[i].kind # "applyHideImages"

\* C15: when applyHideImages(false) has run, the placeholder map is empty, no
\* image carries the saved-display marker and no placeholder is left in the
\* document, whatever the host page did to its images and whether or not the
\* panel was unmounted and mounted again since they were hidden.
C15_DisableUndoesEveryImage ==
  [][(HideImagesToggled /\ ~lastChange'.value) =>
       /\ imagePlaceholdersRef' = {}
       /\ imageDataset' = {}
       /\ \A img \in ImageSet : placeholders'[img] = <<>>]_vars

\* ---------------------------------------------------- style sheets: claims
ContrastSheets == styleSheets["accessibility-contrast-style"]

\* C16: right after applyContrast(level), whatever level was applied before,
\* data-contrast equals the level and exactly one contrast style element
\* exists, with the level's rules, when the level is not default, and the
\* attribute and the element are both absent when it is default; applying
\* the same level once more changes neither.
C16_ContrastRoundTrip ==
  [][\A level \in ContrastLevels :
       lastOp' = "applyContrast:" \o level =>
         /\ dataContrast' = (IF level = "default" THEN Absent ELSE level)
         /\ ContrastSheets' =
              (IF level = "default" THEN <<>> ELSE <<ContrastRules(level)>>)
         /\ applyContrast(World', level).sheets = styleSheets'
         /\ applyContrast(World', level).dataContrast = dataContrast']_vars

\* C16 witness: default was applied over the dark level, while a highlight
\* sheet is in place.
C16_Witness ==
  /\ lastOp = "applyContrast:default"
  /\ dataContrast = Absent /\ ContrastSheets = <<>>
  /\ styleSheets["accessibility-highlight-titles-style"] # <<>>
  /\ bodyClass

EngineStyleCount(id) == Cardinality({n \in nodes : n.id = id})

\* C17: the document never holds more than one style element of a managed
\* id: contrast, highlight titles, highlight links, skip-link styles and
\* focus styles.
C17_OneStyleElementPerId ==
  /\ \A id \in ManagedStyleIds : Len(styleSheets[id]) <= 1
  /\ \A id \in HeadIds : EngineStyleCount(id) <= 1

\* C17 witness: all five style elements are in the document after a second
\* enable of the mode.
C17_Witness ==
  /\ \A id \in ManagedStyleIds : Len(styleSheets[id]) = 1
  /\ \A id \in HeadIds : EngineStyleCount(id) = 1
  /\ enables = 2 /\ inSession

TitleSheets == styleSheets["accessibility-highlight-titles-style"]

LinkSheets == styleSheets["accessibility-highlight-links-style"]

\* C18: after applyHighlightTitles(true) or applyHighlightLinks(true) exactly
\* one style element of that id exists, and a second call leaves it and its
\* content as they are; after a call with false no element of that id
\* exists; a call with false when none exists changes nothing.
C18_HighlightIdempotentReversible ==
  [][/\ lastOp' = "applyHighlightTitles:true" =>
          /\ Len(TitleSheets') = 1 /\ TitleSheets'[1] # ""
          /\ applyHighlightTitles(World', TRUE).sheets = styleSheets'
     /\ lastOp' = "applyHighlightLinks:true" =>
          /\ Len(LinkSheets') = 1 /\ LinkSheets'[1] # ""
          /\ applyHighlightLinks(World', TRUE).sheets = styleSheets'
     /\ lastOp' = "applyHighlightTitles:false" =>
          /\ TitleSheets' = <<>>
          /\ TitleSheets = <<>> => UNCHANGED <<engineVars, panelDocVars>>
     /\ lastOp' = "applyHighlightLinks:false" =>
          /\ LinkSheets' = <<>>
          /\ LinkSheets = <<>> => UNCHANGED <<engineVars, panelDocVars>>]_vars

\* C18 witness: the link highlight was removed while the title highlight and
\* a contrast sheet stay.
C18_Witness ==
  /\ lastOp = "applyHighlightLinks:false"
  /\ LinkSheets = <<>> /\ Len(TitleSheets) = 1 /\ Len(ContrastSheets) = 1

\* ------------------------------------------------------- announcer: claims
OtherRegion(region) == CHOOSE r \in Regions : r # region

\* The pending 5 second timers that will clear the region.
ClearTimersOf(region) ==
  SelectSeq(timers, LAMBDA t : t.kind = "clearRegion" /\ t.arg = region)

\* C19: an announcement of a non-empty message made while no other is on
\* its way leaves its region empty at the call and after one animation
\* frame, with exactly the message after the second frame, when one 5 second
\* timer to clear the region is pending, and empty again once that timer
\* has fired; the other region keeps the text it had, and no call changes
\* the region of the other priority.
C19_AnnouncementLifeCycle ==
  /\ [](announced.phase \in {"called", "one frame", "cleared"} =>
          regionText[announced.priority] = <<>>)
  /\ [](announced.phase = "two frames" =>
          /\ regionText[announced.priority] = <<announced.message>>
          /\ Len(ClearTimersOf(announced.priority)) = 1
          /\ ClearTimersOf(announced.priority)[1].delay = 5000)
  /\ [](announced.phase \in {"called", "one frame", "two frames", "cleared"} =>
          regionText[OtherRegion(announced.priority)] = announced.other)
  /\ [][(lastOp' = "announce:polite" =>
            regionText'["assertive"] = regionText["assertive"])
        /\ (lastOp' = "announce:assertive" =>
            regionText'["polite"] = regionText["polite"])]_vars

\* C19 witness: an assertive announcement was written after two frames and
\* cleared by its timer.
C19_Witness ==
  /\ announced = [message |-> "Saved", priority |-> "assertive", other |-> <<>>,
                  phase |-> "cleared"]
  /\ regionText["assertive"] = <<>>
  /\ Quiet

\* The message of the call that was made last.
LastAnnounced == rafQueue[Len(rafQueue)].message

\* C20: with speech synthesis on, an assertive announcement leaves its own
\* message as the only utterance, the ongoing and the pending ones being
\* cancelled, and a polite announcement keeps every utterance and queues
\* its message behind them.
C20_AssertiveCancelsPoliteQueues ==
  [][/\ ((lastOp' = "announce:assertive" /\ useSpeechSynthesis) =>
           speech' = <<LastAnnounced'>>)
     /\ ((lastOp' = "announce:polite" /\ useSpeechSynthesis) =>
           speech' = Append(speech, LastAnnounced'))
     /\ ((lastOp' = "announce:polite" /\ ~useSpeechSynthesis) =>
           speech' = speech)]_vars

\* C20 witness: an assertive announcement was made while the utterance of an
\* announcement still on its way was queued; its message alone is queued.
C20_Witness ==
  /\ lastOp = "announce:assertive" /\ useSpeechSynthesis
  /\ Len(rafQueue) = 2 /\ rafQueue[1].region = "polite"
  /\ speech = <<rafQueue[2].message>>
  /\ rafQueue[1].message # rafQueue[2].message

AnnouncerIds == {ANNOUNCER_CONTAINER_ID, POLITE_ANNOUNCER_ID, ASSERTIVE_ANNOUNCER_ID}

AnnouncerNodes == {n \in nodes : n.id \in AnnouncerIds}

\* C21: the document never holds more than one announcer container, and
\* with it exactly one polite and one assertive region; none of the three is
\* a node the mode's teardown removes (no entry of createdElements, not the
\* mode's live region), and once created they stay in the document over
\* every step, a disable included.
C21_AnnouncerSingleton ==
  /\ [](\A id \in AnnouncerIds :
          /\ Cardinality({n \in nodes : n.id = id}) <= 1
          /\ (AnnouncerNodes # {} => \E n \in nodes : n.id = id))
  /\ [](/\ \A i \in 1..Len(createdElements) : createdElements[i][1] \notin AnnouncerIds
        /\ liveRegionElement[1] \notin AnnouncerIds)
  /\ [][AnnouncerNodes \subseteq AnnouncerNodes']_vars

\* C21 witness: the mode was enabled and disabled, and an announcement made
\* while it is off was written to its region of the one container.
C21_Witness ==
  /\ lastOp = "other" /\ ~bodyClass /\ enables = 1 /\ ~inSession
  /\ Cardinality(AnnouncerNodes) = 3
  /\ announced.phase = "two frames"
  /\ regionText[announced.priority] = <<announced.message>>

\* ------------------------------------------------------------ filters: claim
\* The filter string of each combination.
ExpectedFilter ==
  [monochrome \in BOOLEAN |->
     [saturation \in SaturationLevels |->
        CASE monochrome /\ saturation = "low" -> "grayscale(100%) saturate(0.5)"
          [] monochrome /\ saturation = "high" -> "grayscale(100%) saturate(1.5)"
          [] monochrome -> "grayscale(100%)"
          [] saturation = "low" -> "saturate(0.5)"
          [] saturation = "high" -> "saturate(1.5)"
          [] OTHER -> ""]]

\* A change of monochrome or saturation in auto mode, whose render runs the
\* filter effect.
FiltersApplied ==
  /\ saveMode = "auto"
  /\ ChangeRuns
  /\ lastChange'.setting \in {"monochrome", "saturation"}

\* C22: when applyFilters has run, the root's filter is grayscale(100%)
\* first when monochrome, then saturate(0.5) for low or saturate(1.5) for
\* high saturation, joined by a space; it is the empty string exactly when
\* monochrome is off and saturation is normal.
C22_FilterComposition ==
  [][FiltersApplied =>
       /\ rootStyle'["filter"] = ExpectedFilter[settings'.monochrome][settings'.saturation]
       /\ (rootStyle'["filter"] = "") =
            (~settings'.monochrome /\ settings'.saturation = "normal")]_vars

\* C22 witness: both filters are active after saturation was changed to high
\* with monochrome on.
C22_Witness ==
  /\ saveMode = "auto"
  /\ lastChange = [setting |-> "saturation", value |-> "high"]
  /\ settings.monochrome
  /\ rootStyle["filter"] = "grayscale(100%) saturate(1.5)"


\* The step is the rest of a Save whose writes failed.
SaveFails == saving.pending /\ ~saving.ok /\ ~saving'.pending

\* What Save applied of the settings it was invoked with.
AppliedBySave ==
  <<rootStyle, dataContrast, styleSheets, imageDataset, imageStyle, placeholders,
    bodyClass, bodyDataSR, createdElements, liveRegionElement, attrs>>

\* C23: when the writes of a Save fail, the rejection is handled inside
\* handleSaveSettings: no promise is left rejected, what this Save applied
\* stays applied, the unsaved-changes flag stays set, the saving indicator is
\* cleared, onSave is not called, and the Save button can be used again.
C23_SaveFailureCaught ==
  /\ [][(SaveRuns /\ ~saving'.ok) =>
          (EffectsApplied(World', settings) /\ storage' = storage)]_vars
  /\ [][SaveFails =>
          /\ escaped' = escaped
          /\ EffectsApplied(World', saving.invoked)
          /\ AppliedBySave' = AppliedBySave
          /\ hasUnsavedChanges'
          /\ ~isSaving'
          /\ lastOp' # "onSave"
          /\ mounted' /\ saveMode' = "manual" /\ settings' = saving.invoked]_vars

\* C23 witness: two settings were changed after the grace window, the writes
\* of the Save failed, and the Save has ended.
C23_Witness ==
  /\ saveMode = "manual" /\ changes = 2 /\ hasUnsavedChanges
  /\ ~isSaving /\ ~saving.pending /\ ~isInitialLoadRef
  /\ lastOp = "other"
  /\ storage = EmptyStorage
  /\ settings.contrast = "dark" /\ settings.hideImages
  /\ EffectsApplied(World, settings)
  /\ escaped = {}
\* C24: every use of the storage is awaited and guarded: a getItem that fails
\* during the load, a setItem that fails in a change handler in auto mode, a
\* removeItem that fails during Reset are caught, and no promise of the panel
\* is left rejected without a handler.
C24_StorageFailuresCaught == escaped = {}
\* The step is a call of an exported function of the engine.
EntryPointCalled ==
  \E name \in EntryPoints : lastOp' \in {Outcome(name, TRUE), Outcome(name, FALSE)}

\* C25: where no document exists, every exported function of the engine
\* returns without throwing and leaves the engine's state as it was.
C25_NoDocumentNoEffect ==
  [][(~documentDefined /\ EntryPointCalled) =>
       /\ engineVars' = engineVars
       /\ \A name \in EntryPoints : lastOp' # Outcome(name, TRUE)]_vars
\* What is stored is what the panel holds: a load of the storage gives the
\* in-memory settings.
StoredIsCurrent == LoadedSettings(storage, DefaultSettings) = settings

\* C26: in manual mode, whenever the unsaved-changes flag is clear and no
\* Save is in flight, every stored value is the in-memory setting; a setting
\* changed while a Save awaits its writes is not marked as saved when the
\* Save ends.
C26_UnsavedFlagSound ==
  (mounted /\ saveMode = "manual" /\ ~hasUnsavedChanges /\ ~isSaving
     /\ ~saving.pending)
    => StoredIsCurrent
\* Hide-images is applied to the page: the setting is on and the image that
\* never leaves the document is hidden.
HideImagesApplied ==
  /\ mounted /\ settings.hideImages /\ ~hasUnsavedChanges /\ ~isSaving
  /\ \E img \in attached : img \in imageDataset /\ Len(placeholders[img]) > 0

\* The image is in the document, visible and without a placeholder.
Unhidden(img) ==
  /\ img \in attached
  /\ img \notin imageDataset
  /\ placeholders[img] = <<>>

\* C27: while hide-images is applied to the page, an image the host page
\* inserts is eventually hidden and given a placeholder.
C27_InsertedImagesHidden ==
  \A img \in ImageSet :
    (HideImagesApplied /\ Unhidden(img))
      ~> (~HideImagesApplied \/ ~Unhidden(img))
\* The step is something the host page does to the document.
HostActs == lastOp' \in {"host", "hostNode", "hostImage"}

\* C28: an observer is connected only while the panel is mounted and the
\* hide-images setting is on; the step that switches hide-images off and the
\* unmount leave none connected; and while none is connected, what the host
\* page does to the document runs the hide path no more.
C28_NoObserverLeak ==
  /\ [](observing => (mounted /\ settings.hideImages))
  /\ [][(settings.hideImages /\ ~settings'.hideImages) => ~observing']_vars
  /\ [][(mounted /\ ~mounted') => ~observing']_vars
  /\ [][(~observing /\ HostActs) => (~observing' /\ imageVars' = imageVars)]_vars

\* C28 witness: hide-images was switched on, which connected the observer and
\* hid the images, and off again; the host page has then inserted a node, and
\* no image is hidden.
C28_Witness ==
  /\ saveMode = "auto" /\ mounted /\ changes = 2 /\ interference = 0
  /\ lastChange = [setting |-> "hideImages", value |-> FALSE]
  /\ lastOp = "hostNode"
  /\ ~observing
  /\ imageDataset = {} /\ imagePlaceholdersRef = {}
\* The step closes the grace window.
WindowCloses == isInitialLoadRef /\ ~isInitialLoadRef'

C30_GraceWindowCloses == mounted ~> ~isInitialLoadRef
\* No timer of the load is pending and no handler is running.
Settled ==
  /\ mounted /\ ~saving.pending
  /\ \A i \in 1..Len(timers) :
       timers[i].kind \in {"clearRegion", "clearStatus"}

\* The document shows the contrast level, the hidden images, the highlights
\* and the mode of the settings s.
TogglesApplied(w, s) ==
  /\ w.dataContrast = (IF s.contrast = "default" THEN Absent ELSE s.contrast)
  /\ w.sheets["accessibility-contrast-style"] =
       (IF s.contrast = "default" THEN <<>> ELSE <<ContrastRules(s.contrast)>>)
  /\ (w.sheets["accessibility-highlight-titles-style"] # <<>>) = s.highlightTitles
  /\ (w.sheets["accessibility-highlight-links-style"] # <<>>) = s.highlightLinks
  /\ w.dataset = (IF s.hideImages THEN ImageSet ELSE {})
  /\ w.bodyClass = s.screenReader

\* C31: in auto save mode, whenever no handler is running and no timer of
\* the load is pending, the contrast level, the hidden images, the
\* highlights and the screen-reader mode the document shows are those of
\* the in-memory settings.
C31_AppliedFollowsSetting ==
  (saveMode = "auto" /\ Settled) => TogglesApplied(World, settings)
\* The engine holds nothing of the mode: no mark on the body, no snapshot,
\* no registered element, no focus style, no focus reading.
TornDown ==
  /\ ~bodyClass /\ bodyDataSR = Absent
  /\ originalAttributes = [e \in HostEls |-> [a \in AttrNames |-> NotStored]]
  /\ createdElements = <<>>
  /\ ~\E n \in nodes : n.id = "screen-reader-focus-styles"
  /\ ~focusReadingEnabled
  /\ listeners = [ev \in {"focusin", "keydown"} |-> 0]

\* C32: when disableScreenReaderMode returns, the body has neither the class
\* nor the attribute, the snapshot map and the registry of created elements
\* are empty, no element that was registered is in the document, the focus
\* style element is gone, and focus reading is off with both listeners
\* removed.
C32_DisableTearsDown ==
  [][lastOp' = "disable" =>
       /\ TornDown'
       /\ \A i \in 1..Len(createdElements) :
            ~\E n \in nodes' : n.uid = createdElements[i]]_vars

C32_Witness ==
  /\ lastOp = "disable" /\ enables > 0 /\ useSpeechSynthesis
  /\ TornDown /\ nodes # {}
\* Every call for the region has had its two frames.
FramesRun(region) ==
  \A i \in 1..Len(rafQueue) : rafQueue[i].region # region

\* The 5 seconds of the last write to the region have not passed: timers of
\* equal delay fire in the order they were started, so while any clear timer
\* of the region is pending, the last one started is.
LastWriteFresh(region) ==
  \E i \in 1..Len(timers) :
     timers[i].kind = "clearRegion" /\ timers[i].arg = region

\* C33: for any sequence of announceToScreenReader calls to one region, from
\* the moment the last call's two frames have run until 5 seconds after its
\* write, the region holds exactly the last message: one text, which is the
\* last call's because texts are appended in the order of the calls.  No
\* earlier text is left next to it and no earlier timer has emptied the
\* region.
C33_LastAnnouncementStands ==
  \A region \in Regions :
     (FramesRun(region) /\ LastWriteFresh(region)) => Len(regionText[region]) = 1
\* ------------------------------------------------- focus reading at work
\* The elements the focus moves to: a link, and the main element, which the
\* skip link focuses.
FocusTargets == {"navlink", "main"}

FocusableTags == {"a", "button", "input", "select", "textarea", "details", "summary"}

\* hasAttribute('tabindex') || hasAttribute('role') || tagName is focusable
hasFocusableRole(w, target) ==
  \/ w.attrs[target]["tabindex"] # Absent
  \/ w.attrs[target]["role"] # Absent
  \/ Tag[target] \in FocusableTags

\* The text spoken for an element: its accessible name first, which is the
\* aria-label when there is one; the element's own text stands for the rest.
buildElementAnnouncement(w, element) ==
  IF w.attrs[element]["aria-label"] # Absent
    THEN w.attrs[element]["aria-label"]
    ELSE element

\* Observer field of a settle timer: the focus has been on the target ever
\* since the event.  A focus change to another element clears it.
FocusLeaves(w, to) ==
  [w EXCEPT !.timers =
     [i \in DOMAIN @ |->
        IF @[i].kind = "readFocused" /\ @[i].arg # to
          THEN [@[i] EXCEPT !.stayed = FALSE]
          ELSE @[i]]]

\* The focusin listener: setTimeout(() => { if (document.activeElement ===
\* target) speakMessage(announcement, 'polite') }, 100)
handleFocusForReading(w, target) ==
  IF ~w.focusOn \/ ~w.speechOn \/ ~hasFocusableRole(w, target)
    THEN w
    ELSE [w EXCEPT !.timers =
            Append(@, [kind |-> "readFocused", delay |-> 100, arg |-> target,
                       message |-> buildElementAnnouncement(w, target),
                       stayed |-> TRUE])]

\* The callback of the settle timer.
ReadFocused(w, t) ==
  IF w.active = t.arg THEN speakMessage(w, t.message, "polite") ELSE w

\* The keys pressed: Alt with one of the shortcut letters or with another.
Keys == {"r", "h", "l", "s", "p", "x"}

\* The keydown listener.  The host page has headings, links and text, so the
\* three readers speak what they found.
handleKeyboardShortcuts(w, key) ==
  IF ~w.focusOn
    THEN w
    ELSE CASE key = "r" ->
                IF w.active # "body"
                  THEN speakMessage(w, buildElementAnnouncement(w, w.active),
                                    "assertive")
                  ELSE w
           [] key = "h" -> speakMessage(w, "Page headings", "polite")
           [] key = "l" -> speakMessage(w, "links", "polite")
           [] key = "s" -> stopSpeaking(w)
           [] key = "p" -> speakMessage(w, "text", "polite")
           [] OTHER -> w

FocusTimers == SelectSeq(timers, LAMBDA t : t.kind = "readFocused")

\* The focus moves to another element or back to the body; focusin is
\* dispatched to the listeners registered for it.
Focus(target) ==
  /\ target \in FocusTargets \cup {"body"}
  /\ target # activeElement
  /\ Len(FocusTimers) < MaxFocusTimers
  /\ Commit(When(target # "body" /\ listeners["focusin"] > 0,
                 LAMBDA x : handleFocusForReading(x, target),
                 FocusLeaves([World EXCEPT !.active = target], target)))
  /\ Observe("focus")
  /\ UNCHANGED panelVars

ReadFocusedTimer(i) ==
  /\ i \in 1..Len(timers)
  /\ timers[i].kind = "readFocused"
  /\ TimerDue(i)
  /\ Len(speech) < MaxUtterances
  /\ Commit(ReadFocused([World EXCEPT !.timers = RemoveAt(@, i)], timers[i]))
  /\ Observe("focusTimer")
  /\ UNCHANGED panelVars

KeyDown(key) ==
  /\ Len(speech) < MaxUtterances
  /\ Commit(When(listeners["keydown"] > 0,
                 LAMBDA x : handleKeyboardShortcuts(x, key), World))
  /\ Observe("keydown")
  /\ UNCHANGED panelVars

EnableFocusReading ==
  /\ Commit(enableFocusReading(World))
  /\ Observe("other")
  /\ UNCHANGED panelVars

DisableFocusReading ==
  /\ Commit(disableFocusReading(World))
  /\ Observe("disableFocusReading")
  /\ UNCHANGED panelVars

\* The host enables and disables the mode and focus reading and switches
\* speech synthesis while the user moves the focus and presses keys.
NextFocus ==
  \/ EnableScreenReaderMode(PanelConfig)
  \/ DisableScreenReaderMode
  \/ EnableFocusReading
  \/ DisableFocusReading
  \/ \E enabled \in BOOLEAN : SetSpeechSynthesis(enabled)
  \/ \E target \in FocusTargets \cup {"body"} : Focus(target)
  \/ \E i \in 1..Len(timers) : ReadFocusedTimer(i)
  \/ AnimationFrame
  \/ \E i \in 1..Len(timers) : ClearRegionTimer(i)
  \/ UtteranceEnd

InitFocus ==
  /\ InitSR
  /\ attrs = BaseAttrs

SpecFocus == InitFocus /\ [][NextFocus]_vars

\* The same host while the user presses keys with the focus on the link.
NextKeys ==
  \/ EnableScreenReaderMode(PanelConfig)
  \/ DisableScreenReaderMode
  \/ EnableFocusReading
  \/ DisableFocusReading
  \/ \E enabled \in BOOLEAN : SetSpeechSynthesis(enabled)
  \/ \E key \in Keys : KeyDown(key)
  \/ AnimationFrame
  \/ \E i \in 1..Len(timers) : ClearRegionTimer(i)
  \/ UtteranceEnd

InitKeys ==
  /\ attrs = BaseAttrs
  /\ EngineStart
  /\ activeElement \in {"body", "navlink"}
  /\ ObserverInit
  /\ saveMode = "auto"
  /\ storageHandler = "webStorage"
  /\ storage = EmptyStorage
  /\ imageStyle = HostImageStyle
  /\ PanelInit

SpecKeys == InitKeys /\ [][NextKeys]_vars
\* The step is the settle timer i, and its callback speaks.
SpeaksFocused(i) ==
  /\ ReadFocusedTimer(i)
  /\ speech' = Append(speech, timers[i].message)

\* C34: focus reading speaks an element only when speech synthesis and focus
\* reading were both on at the focus event and the focus has stayed on the
\* element for the whole settle delay: a timer whose target lost the focus
\* at any time since its event, even if the focus is back when it fires,
\* does not speak.
C34_SpeaksOnlyAfterFullStay ==
  [][/\ Len(FocusTimers') > Len(FocusTimers) =>
          focusReadingEnabled /\ useSpeechSynthesis
     /\ \A i \in 1..Len(timers) : SpeaksFocused(i) => timers[i].stayed]_vars
\* C35: once disableFocusReading, disableScreenReaderMode or
\* setSpeechSynthesis(false) has returned, no focus-triggered utterance is
\* spoken: a settle timer that fires while focus reading or speech
\* synthesis is off does not speak.
C35_NoSpeechAfterDisable ==
  [][\A i \in 1..Len(timers) :
       SpeaksFocused(i) => focusReadingEnabled /\ useSpeechSynthesis]_vars
\* The step is a key press that makes the synthesizer speak.
KeySpeaks ==
  /\ lastOp' = "keydown"
  /\ speech' # speech
  /\ speech' # <<>>

\* C36: the focus-in and keydown listeners are attached exactly while focus
\* reading is enabled: after any sequence of enables and disables of focus
\* reading and of the mode each is registered once if focusReadingEnabled is
\* true and not at all otherwise, and an Alt-key shortcut makes the
\* synthesizer speak only while focus reading is enabled.
C36_ListenersFollowFocusReading ==
  /\ [](\A ev \in {"focusin", "keydown"} :
          listeners[ev] = (IF focusReadingEnabled THEN 1 ELSE 0))
  /\ [][KeySpeaks => focusReadingEnabled]_vars

C36_Witness ==
  /\ lastOp = "keydown" /\ speech # <<>>
  /\ focusReadingEnabled /\ listeners["keydown"] = 1 /\ listeners["focusin"] = 1
  /\ enables > 0
\* ------------------------------------------------- the flags of the mode
\* The configurations that switch at most one flag off, or at most one on:
\* every flag is met on and off next to all others on and all others off.
FlagConfigs ==
  {config \in [Flags -> BOOLEAN] :
     Cardinality({f \in Flags : config[f]}) \in {0, 1, 6, 7}}

\* The host enables the mode with any configuration, with speech synthesis
\* on or off, and disables it.
NextFlags ==
  \/ \E config \in FlagConfigs : EnableScreenReaderMode(config)
  \/ DisableScreenReaderMode
  \/ \E enabled \in BOOLEAN : SetSpeechSynthesis(enabled)
  \/ AnimationFrame
  \/ \E i \in 1..Len(timers) : ClearRegionTimer(i)
  \/ UtteranceEnd

SpecFlags == InitFocus /\ [][NextFlags]_vars
\* The features of the mode that are set up in the document.
FeaturesSetUp ==
  [f \in Flags |->
     CASE f = "enhancedAria" -> attrs["img"]["alt"] = "Image"
       [] f = "skipLinks" -> \E n \in nodes : n.id = "skip-links-container"
       [] f = "enhancedFocus" -> \E n \in nodes : n.id = "screen-reader-focus-styles"
       [] f = "landmarkRoles" -> attrs["main"]["role"] = "main"
       [] f = "liveRegions" -> liveRegionElement # Null
       [] f = "readOnFocus" -> listeners["focusin"] > 0
       [] f = "keyboardShortcuts" -> listeners["keydown"] > 0]

\* C37: the flags of enableScreenReaderMode(config) are independent: with
\* the mode off and speech synthesis on, an enable sets up exactly the
\* features whose flags are true; in particular keyboardShortcuts = false
\* with readOnFocus = true installs no shortcut handler and
\* keyboardShortcuts = true with readOnFocus = false installs it.
C37_FlagsIndependent ==
  [][(lastOp' = "enable" /\ TornDown /\ useSpeechSynthesis) =>
       \A config \in FlagConfigs :
          EnableScreenReaderMode(config) => FeaturesSetUp' = FullConfig(config)]_vars
\* The elements of a tag whose role the engine assigned in this session.
AssignedRole(tag, role) ==
  {e \in HostEls : /\ Tag[e] = tag
                   /\ attrs[e]["role"] = role
                   /\ pre.attrs[e]["role"] # role}

\* C38: landmark roles go only to elements that do not declare the role or
\* label already, and for main, header and footer only to the first such
\* element: within one session, after any number of enables, at most one
\* main, one header and one footer carry a role the engine assigned, and
\* every role and aria-label the page had declared still has its value.
C38_LandmarksAssignedOnce ==
  inSession =>
    /\ Cardinality(AssignedRole("main", "main")) <= 1
    /\ Cardinality(AssignedRole("header", "banner")) <= 1
    /\ Cardinality(AssignedRole("footer", "contentinfo")) <= 1
    /\ \A e \in HostEls : \A a \in {"role", "aria-label"} :
         pre.attrs[e][a] # Absent => attrs[e][a] = pre.attrs[e][a]
\* ------------------------------------------------- unmounting during the load
\* The 200 ms timer of an unmounted panel: it writes the refs of the dead
\* instance, which nothing reads.
StaleEndInitialLoad(i) ==
  /\ ~mounted
  /\ PanelTimer(i, "endInitialLoad")
  /\ Commit(Fired(World, i))
  /\ Observe("other")
  /\ UNCHANGED panelVars

\* The panel mounts once and is unmounted at any time, also while the
\* timers of its load are pending; no timer is cancelled by the unmount.
NextUnmount ==
  \/ interference = 0 /\ Mount
  \/ UnmountCleanup
  \/ \E i \in 1..Len(timers) : ApplyHideImagesTimer(i)
  \/ \E i \in 1..Len(timers) : ApplyHighlightTitlesTimer(i)
  \/ \E i \in 1..Len(timers) : ApplyHighlightLinksTimer(i)
  \/ \E i \in 1..Len(timers) : ApplyContrastTimer(i)
  \/ \E i \in 1..Len(timers) : EnableScreenReaderTimer(i)
  \/ \E i \in 1..Len(timers) : mounted /\ EndInitialLoad(i)
  \/ \E i \in 1..Len(timers) : StaleEndInitialLoad(i)
  \/ \E i \in 1..Len(timers) : ClearRegionTimer(i)
  \/ AnimationFrame
  \/ UtteranceEnd

SpecUnmount == InitLoad /\ [][NextUnmount]_vars

\* C39: after the panel has unmounted, the screen-reader mode is disabled
\* and stays disabled: no timer started before the unmount enables it.
C39_DisabledAfterUnmount ==
  (~mounted /\ interference > 0) => (~bodyClass /\ bodyDataSR = Absent)
\* ------------------------------------------------- the watcher's own records
\* The callbacks the watcher runs after a mutation of the body of w, n of
\* them so far: each runs applyHideImages(true), and one that changed a
\* child list is followed by another.  The count stops at the bound.
RECURSIVE WatcherRuns(_, _)
WatcherRuns(w, n) ==
  IF n >= MaxWatcherRuns
    THEN n
    ELSE Then(applyHideImages(w, TRUE),
              LAMBDA x : IF BodyMutated(w, x) THEN WatcherRuns(x, n + 1) ELSE n + 1)

\* C40: the hide-images watcher reaches a fixpoint: in every state in which
\* it is connected, a mutation is followed by fewer callbacks than the bound
\* (the last of them changed nothing), and when every image in the document
\* is processed a callback changes nothing in the document.
C40_WatcherReachesFixpoint ==
  observing =>
    /\ WatcherRuns(World, 0) < MaxWatcherRuns
    /\ (attached \subseteq imageDataset) => applyHideImages(World, TRUE) = World

C40_Witness ==
  /\ observing /\ lastOp = "hostImage"
  /\ attached = ImageSet /\ imageDataset = ImageSet
  /\ \A img \in ImageSet : Len(placeholders[img]) = 1
====
